---- MODULE Spec2Model ----
(***************************************************************************)
(* Model of the MangaPark follow-list export engine (mp_export_runner.js)  *)
(* together with the popup handlers that start, cancel and clear an export *)
(* (popup.js).                                                             *)
(*                                                                         *)
(* Every injection of mp_export_runner.js creates a fresh closure (its own *)
(* cancelRequested / currentAbort) and calls runExport().  A runner slot r *)
(* is one such closure; pc[r] is the await at which it is suspended.       *)
(* Storage is the single logical key/value store behind getFromStorage /   *)
(* setToStorage; every write is assumed to succeed.  Timestamps other than *)
(* last_error.at / retry_at (started_at, updated_at, last_progress_at,     *)
(* captured_at) and the local-only diagnostic report are not modelled.     *)
(***************************************************************************)
EXTENDS Integers, Sequences, FiniteSets, TLC

VARIABLES
    exportState,   \* storage[mp_export_state]
    dataStore,     \* storage[mp_export_follows]
    partialStore,  \* storage[mp_export_partial]
    cancelFlag,    \* storage[mp_export_cancel]
    now,           \* wall clock in ms (Date.now())
    rn,            \* rn[r]: the locals of runner closure r
    call,          \* one call of a pure helper: its arguments and its result
    mig,           \* migrate.js: the migration panel's exportPayload and items
    md             \* migrate.js: the MangaDex matcher (stored keys, in-memory copies, drivers)

vars == <<exportState, dataStore, partialStore, cancelFlag, now, rn, call, mig, md>>

(***************************************************************************)
(* Bounds of the model and constants of the program.                       *)
(***************************************************************************)
NumPages == 5                 \* paging.pages reported by the server
MaxTicks == 1                 \* the clock advances at most this many times
Runners == {"r1", "r2"}       \* injected closures (two UI surfaces)

THROTTLE_MS == 250
RETRY_MAX == 3
PAUSE_BACKOFF_MIN_MS == 5000
PAUSE_BACKOFF_MAX_MS == 15000
SNAPSHOT_EVERY == 5
TickMs == PAUSE_BACKOFF_MIN_MS \* one clock step: the shortest retry window
\* Math.random() is drawn as k / RandDen, for the numerators k of RandDraws
RandDen == PAUSE_BACKOFF_MAX_MS - PAUSE_BACKOFF_MIN_MS + 1
RandDraws == {0, RandDen - 1}

Origin == "https://mangapark.net"

NullNum == -1                 \* null in a numeric field (pages, total, ...)
NoCode == ""                  \* null / empty error code

NoLastError ==
    [code |-> NoCode, retryable |-> FALSE, at |-> NullNum,
     retry_after_ms |-> NullNum, retry_at |-> NullNum]

NoPartial ==
    [present |-> FALSE, status |-> "", page |-> NullNum, pages |-> NullNum,
     total |-> NullNum, last_error |-> NoLastError, items |-> <<>>]

NoPayload == [present |-> FALSE, total_items |-> NullNum, items |-> <<>>]

(***************************************************************************)
(* The server: static follow list, NumPages pages.  Page 1 and page 3      *)
(* share comic "a" (with a changed name), pages 2 and 4 share a row that   *)
(* has no comic id (identity = url), page 3 has a row with no identity.    *)
(***************************************************************************)
Row(id, name, urlPath) == [id |-> id, name |-> name, urlPath |-> urlPath]

ServerRows(page) ==
    CASE page = 1 -> << Row("a", "A", "/a"), Row("b", "B", "/b") >>
      [] page = 2 -> << Row("b", "B", "/b"), Row("", "C", "/c") >>
      [] page = 3 -> << Row("a", "A-renamed", "/a"), Row("", "X", "") >>
      [] page = 4 -> << Row("", "C-renamed", "/c"), Row("d", "D", "/d") >>
      [] page = 5 -> << Row("e", "E", "/e") >>
      [] page > 5 /\ page <= NumPages -> << Row("f", "F", "/f"), Row("e", "E", "/e") >>
      [] OTHER -> << >>

RECURSIVE SumRows(_)
SumRows(page) == IF page <= 0 THEN 0 ELSE Len(ServerRows(page)) + SumRows(page - 1)

ServerTotal == SumRows(NumPages)

HttpStatuses == {200, 403, 404, 503}

(***************************************************************************)
(* Pure helpers of mp_export_runner.js.                                    *)
(***************************************************************************)
Min(a, b) == IF a <= b THEN a ELSE b
Max(a, b) == IF a >= b THEN a ELSE b

\* mutant of computePauseBackoffMs: the jitter spans the maximum, not the span
computePauseBackoffWide(rnd) ==
    LET min == PAUSE_BACKOFF_MIN_MS
        max == PAUSE_BACKOFF_MAX_MS
        jitter == (rnd * (max + 1)) \div RandDen
    IN min + jitter

clampInt(n, min, max) == IF n < min THEN min ELSE IF n > max THEN max ELSE n

computePauseBackoffMs(rnd) ==
    LET min == PAUSE_BACKOFF_MIN_MS
        max == PAUSE_BACKOFF_MAX_MS
        span == Max(0, max - min)
        jitter == (rnd * (span + 1)) \div RandDen
    IN clampInt(min + jitter, min, max)

\* mutant of isTransientHttpStatus: every 4xx counts as transient
isTransientAny4xx(s) ==
    \/ s >= 400 /\ s <= 499
    \/ s >= 500 /\ s <= 599

\* mutant of isTransientHttpStatus: the 5xx range is missing
isTransientWithout5xx(s) ==
    \/ s = 429
    \/ s = 403
    \/ s = 408

isTransientHttpStatus(s) ==
    \/ s = 429
    \/ (s >= 500 /\ s <= 599)
    \/ s = 403
    \/ s = 408

HttpCode(s) == "HTTP_" \o ToString(s)

\* mutant of isTransientErrorCode: every error code counts as transient
isTransientAnyCode(c) == c # NoCode

isTransientErrorCode(c) ==
    IF c = NoCode THEN FALSE
    ELSE IF c \in {"BAD_RESPONSE", "NO_RESPONSE", "NETWORK_ERROR", "TIMEOUT", "RETRY_COOLDOWN"}
         THEN TRUE
    ELSE \E s \in 100..599 : c = HttpCode(s) /\ isTransientHttpStatus(s)

\* err is "" (no exception), "CANCELLED", "AbortError" or "Error";
\* mutant of classifyNetworkFailure: an abort is not told from a network error
classifyWithoutAbort(status, jsonOk, err) ==
    IF err # "" THEN
        IF err = "CANCELLED" THEN [retryable |-> FALSE, code |-> "CANCELLED"]
        ELSE [retryable |-> TRUE, code |-> "NETWORK_ERROR"]
    ELSE IF status = NullNum THEN [retryable |-> TRUE, code |-> "NO_RESPONSE"]
    ELSE IF ~(status >= 200 /\ status <= 299) THEN
        [retryable |-> isTransientHttpStatus(status), code |-> HttpCode(status)]
    ELSE IF jsonOk = "false" THEN [retryable |-> TRUE, code |-> "BAD_RESPONSE"]
    ELSE [retryable |-> FALSE, code |-> NoCode]

\* status is the HTTP status or NullNum when there is no response;
\* jsonOk is "true", "false" or "null".
classifyNetworkFailure(status, jsonOk, err) ==
    IF err # "" THEN
        IF err = "CANCELLED" THEN [retryable |-> FALSE, code |-> "CANCELLED"]
        ELSE IF err = "AbortError" THEN [retryable |-> TRUE, code |-> "TIMEOUT"]
        ELSE [retryable |-> TRUE, code |-> "NETWORK_ERROR"]
    ELSE IF status = NullNum THEN [retryable |-> TRUE, code |-> "NO_RESPONSE"]
    ELSE IF ~(status >= 200 /\ status <= 299) THEN
        [retryable |-> isTransientHttpStatus(status), code |-> HttpCode(status)]
    ELSE IF jsonOk = "false" THEN [retryable |-> TRUE, code |-> "BAD_RESPONSE"]
    ELSE [retryable |-> FALSE, code |-> NoCode]

\* identity of an item: comic_id, else mangapark_url ("" when it has none)
Identity(it) == IF it.comic_id # "" THEN it.comic_id ELSE it.mangapark_url

\* a Map is modelled as the sequence of its values in insertion order
MapKeys(map) == { Identity(map[i]) : i \in 1..Len(map) }

mapItemToDataset(row) ==
    [title |-> row.name,
     mangapark_url |-> IF row.urlPath # "" THEN Origin \o row.urlPath ELSE "",
     comic_id |-> row.id]

dedupePush(map, item) ==
    LET key == Identity(item)
    IN IF key = "" THEN map
       ELSE IF key \in MapKeys(map) THEN map
       ELSE Append(map, item)

\* mutant of MergeRow: the has(key) test is dropped
MergeRowNoDedupe(map, row) ==
    LET mapped == mapItemToDataset(row)
        key == Identity(mapped)
    IN IF key = "" THEN map ELSE Append(map, mapped)

\* mutant of MergeRow: Map.set without the has(key) test, the last row wins
MergeRowLastWins(map, row) ==
    LET mapped == mapItemToDataset(row)
        key == Identity(mapped)
    IN IF key = "" THEN map
       ELSE IF key \notin MapKeys(map) THEN Append(map, mapped)
       ELSE [i \in 1..Len(map) |-> IF Identity(map[i]) = key THEN mapped ELSE map[i]]

\* one iteration of the "Map items" loop of exportAllFollowsViaApo
MergeRow(map, row) ==
    LET mapped == mapItemToDataset(row)
        key == Identity(mapped)
    IN IF key = "" THEN map
       ELSE IF key \notin MapKeys(map) THEN Append(map, mapped)
       ELSE map

RECURSIVE MergeRowsFrom(_, _, _)
MergeRowsFrom(map, rows, i) ==
    IF i > Len(rows) THEN map
    ELSE MergeRowsFrom(MergeRow(map, rows[i]), rows, i + 1)

MergeRows(map, rows) == MergeRowsFrom(map, rows, 1)

HydrateStep(dedupe, it) ==
    LET key == Identity(it)
    IN IF key = "" THEN dedupe
       ELSE IF key \notin MapKeys(dedupe) THEN Append(dedupe, it)
       ELSE dedupe

RECURSIVE HydrateFrom(_, _, _)
HydrateFrom(dedupe, items, i) ==
    IF i > Len(items) THEN dedupe
    ELSE HydrateFrom(HydrateStep(dedupe, items[i]), items, i + 1)

\* mutant of hydrateDedupeFromPartial: the loop skips the first item
hydrateSkipsFirst(dedupe, partialPayload) ==
    HydrateFrom(dedupe, partialPayload.items, 2)

hydrateDedupeFromPartial(dedupe, partialPayload) ==
    HydrateFrom(dedupe, partialPayload.items, 1)

isValidPartialPayload(payload) ==
    /\ payload.present
    /\ Len(payload.items) # 0
    /\ payload.page >= 1

readPartialPayload == IF isValidPartialPayload(partialStore) THEN partialStore ELSE NoPartial

buildPartialPayload(status, page, pages, total, items, lastError) ==
    [present |-> TRUE, status |-> status, page |-> page, pages |-> pages,
     total |-> total, last_error |-> lastError, items |-> items]


\* updateState: {...prev, ...patch}
updateState(prev, patch) ==
    [f \in (DOMAIN prev) \cup (DOMAIN patch) |->
        IF f \in DOMAIN patch THEN patch[f] ELSE prev[f]]

\* the state object written by the popup's clear (and the state of a new install)
ClearedState ==
    [status |-> "idle", page |-> 0, pages |-> NullNum, collected |-> 0,
     total |-> NullNum, error |-> NoCode, last_error |-> NoLastError]

(***************************************************************************)
(* The locals of one runner closure.                                       *)
(*   pc          the await the closure is suspended at ("off": not running)*)
(*   result      how the last runExport() of the closure returned          *)
(*   firstReq    history: first page requested by this runExport() (0: none)*)
(*   observed    history: where this run observed a cancellation           *)
(*   calledRetryAt  history: last_error.retry_at of the paused state this  *)
(*               runExport() read first (NullNum: it was not paused)       *)
(*   clearedUnder  history: the popup cleared the export while this        *)
(*               runExport() was under way                                 *)
(*   pausedSnap  history: the snapshot pauseExport wrote in this run       *)
(***************************************************************************)
\* the migration panel is not open
NoPanel == [loaded |-> FALSE, hasPayload |-> FALSE, items |-> <<>>]

\* storage[md_match_state] is absent (getMdMatchStateFromStorage reads it
\* as these defaults)
NoMdState ==
    [present |-> FALSE, status |-> "idle", index |-> 0, total |-> 0, matched |-> 0,
     openIndex |-> 0, error |-> ""]

\* the follow settings and target list of an auto-follow that is not running
NoFollow ==
    [running |-> FALSE, pc |-> "idle", threshold |-> [n |-> 0, d |-> 1],
     ackAtStart |-> FALSE, selAtStart |-> [n |-> 0, d |-> 1], targets |-> <<>>,
     last |-> [id |-> "", at |-> 0], stopped |-> FALSE, followedByAll |-> {}]

\* the matcher of a panel that is not open, over empty storage
NoMatcher ==
    [stState |-> NoMdState,
     stResults |-> [present |-> FALSE, list |-> <<>>],
     stCancel |-> FALSE,
     stFollowCancel |-> FALSE,
     state |-> NoMdState,
     results |-> [isArray |-> FALSE, list |-> <<>>],
     running |-> FALSE,
     pc |-> "idle",
     i |-> 0,
     matched |-> 0,
     it |-> [title |-> <<>>, mangapark_url |-> ""],
     attempt |-> 0,
     hint |-> [has |-> FALSE, seconds |-> 0],
     waitMs |-> 0,
     err |-> "",
     ack |-> FALSE,
     sel |-> [n |-> 72, d |-> 100],
     follow |-> NoFollow]


\* migrate.js, the storage listener of the panel: a change of
\* mp_export_follows replaces exportPayload and items
OnExportDataChanged(m, old, new) ==
    IF m.loaded /\ old # new
    THEN [m EXCEPT !.hasPayload = new.present, !.items = new.items]
    ELSE m

\* no helper call is recorded
NoCall ==
    [fn |-> "", status |-> NullNum, jsonOk |-> "null", err |-> "", rnd |-> 0,
     done |-> FALSE, retryable |-> FALSE, code |-> NoCode, ms |-> NullNum,
     recorded |-> NullNum]

FreshLocals ==
    [pc |-> "off", cancelRequested |-> FALSE, listening |-> FALSE, aborted |-> FALSE,
     status |-> "", lastPage |-> 0, lastPages |-> NullNum, waitUntil |-> NullNum,
     partial |-> NoPartial, resumeFrom |-> 0, isResume |-> FALSE,
     startPage |-> 0, p |-> 0, lastGoodPage |-> 0, pages |-> NullNum, total |-> NullNum,
     dedupe |-> <<>>, attempt |-> 0, lastStatus |-> NullNum,
     reason |-> NoCode, lastError |-> NoLastError,
     finalItems |-> <<>>, result |-> "none", error |-> NoCode,
     firstReq |-> 0, observed |-> "", pausedSnap |-> NoPartial, backoff |-> 0,
     calledRetryAt |-> NullNum, clearedUnder |-> FALSE]

Init ==
    /\ exportState = ClearedState
    /\ dataStore = NoPayload
    /\ partialStore = NoPartial
    /\ cancelFlag = FALSE
    /\ now = 0
    /\ rn = [r \in Runners |-> FreshLocals]
    /\ call = NoCall
    /\ mig = NoPanel
    /\ md = NoMatcher

Upd(r, l) == rn' = [rn EXCEPT ![r] = l]

\* runExport returns: the closure keeps nothing but how the run ended
Return(l, result) ==
    [FreshLocals EXCEPT !.result = result, !.error = l.error, !.observed = l.observed,
                        !.cancelRequested = l.cancelRequested, !.listening = l.listening]

(***************************************************************************)
(* popup.js: start / resume button -> openFollowsAndRun -> injection of    *)
(* the runner file, whose last statement calls runExport().                *)
(***************************************************************************)
Inject(r) ==
    /\ rn[r].pc = "off"
    /\ exportState.status # "running"          \* startBtn.disabled = isRunning
    /\ cancelFlag' = FALSE
    /\ Upd(r, [FreshLocals EXCEPT !.pc = "readState"])
    /\ UNCHANGED <<md, call, mig, exportState, dataStore, partialStore, now>>

(***************************************************************************)
(* runExport                                                               *)
(***************************************************************************)
ReadState(r) ==
    /\ rn[r].pc = "readState"
    /\ LET l == rn[r]
           st == exportState
       IN IF st.status = "running"
          THEN Upd(r, Return([l EXCEPT !.status = st.status], "noop"))
          ELSE Upd(r, [l EXCEPT !.status = st.status,
                                !.lastPage = st.page,
                                !.lastPages = st.pages,
                                !.calledRetryAt = IF st.status = "paused"
                                                  THEN st.last_error.retry_at ELSE NullNum,
                                !.pc = IF st.status = "paused" THEN "waitRead"
                                       ELSE "readPartial"])
    /\ UNCHANGED <<md, call, mig, exportState, dataStore, partialStore, cancelFlag, now>>

\* waitForRetryWindowIfNeeded, up to the wait loop
WaitRead(r) ==
    /\ rn[r].pc = "waitRead"
    /\ LET l == rn[r]
           st == exportState
           retryAt == st.last_error.retry_at
       IN IF st.status # "paused" \/ retryAt = NullNum \/ retryAt - now <= 0
          THEN Upd(r, [l EXCEPT !.pc = "readPartial"])
          ELSE Upd(r, [l EXCEPT !.pc = "waitLoop", !.waitUntil = retryAt])
    /\ UNCHANGED <<md, call, mig, exportState, dataStore, partialStore, cancelFlag, now>>

\* mutant of WaitLoop: the loop is left without sleeping
WaitLoopNoSleep(r) ==
    /\ rn[r].pc = "waitLoop"
    /\ LET l == rn[r]
       IN IF l.cancelRequested \/ cancelFlag
          THEN Upd(r, [l EXCEPT !.cancelRequested = TRUE, !.pc = "catch",
                                !.error = "CANCELLED", !.observed = "wait"])
          ELSE Upd(r, [l EXCEPT !.pc = "readPartial"])
    /\ UNCHANGED <<md, call, mig, exportState, dataStore, partialStore, cancelFlag, now>>

\* the wait loop: a cancellation is seen at the start of a slice; the loop
\* is left once the slices slept add up to the retry window
WaitLoop(r) ==
    /\ rn[r].pc = "waitLoop"
    /\ LET l == rn[r]
       IN IF l.cancelRequested \/ cancelFlag
          THEN Upd(r, [l EXCEPT !.cancelRequested = TRUE, !.pc = "catch",
                                !.error = "CANCELLED", !.observed = "wait"])
          ELSE /\ now >= l.waitUntil
               /\ Upd(r, [l EXCEPT !.pc = "readPartial"])
    /\ UNCHANGED <<md, call, mig, exportState, dataStore, partialStore, cancelFlag, now>>

\* the page runExport resumes from
ResumeFromOf(partial, lastPage, lastPages) ==
    IF partial.present
    THEN IF partial.page >= 1 THEN partial.page + 1 ELSE 1
    ELSE IF lastPage # 0 /\ lastPages # NullNum /\ lastPages # 0 /\ lastPage < lastPages
         THEN lastPage + 1
         ELSE 1

ReadPartial(r) ==
    /\ rn[r].pc = "readPartial"
    /\ LET l == rn[r]
           partial == readPartialPayload
       IN Upd(r, [l EXCEPT !.partial = partial,
                           !.resumeFrom = ResumeFromOf(partial, l.lastPage, l.lastPages),
                           !.pc = "start"])
    /\ UNCHANGED <<md, call, mig, exportState, dataStore, partialStore, cancelFlag, now>>

(***************************************************************************)
(* exportAllFollowsViaApo                                                  *)
(***************************************************************************)
Start(r) ==
    /\ rn[r].pc = "start"
    /\ cancelFlag' = FALSE
    /\ Upd(r, [rn[r] EXCEPT !.cancelRequested = FALSE, !.listening = TRUE,
                            !.pc = "readPartial2"])
    /\ UNCHANGED <<md, call, mig, exportState, dataStore, partialStore, now>>

\* the page the loop starts at
StartPageOf(isResume, partial, resumeFromPage) ==
    IF isResume /\ partial.present
    THEN IF partial.page >= 1 THEN partial.page + 1 ELSE 1
    ELSE IF resumeFromPage > 0 THEN resumeFromPage ELSE 1

\* loggedIn: getCurrentUserId finds the user id in the DOM or in a script
ReadPartial2As(r, loggedIn) ==
    /\ rn[r].pc = "readPartial2"
    /\ LET l == rn[r]
           partial == readPartialPayload
           isResume == l.resumeFrom > 1
       IN IF isResume /\ ~partial.present
          THEN Upd(r, [l EXCEPT !.partial = partial, !.isResume = isResume,
                                !.pc = "resumeUnavailable"])
          ELSE IF ~loggedIn
          THEN Upd(r, [l EXCEPT !.partial = partial, !.isResume = isResume,
                                !.pc = "catch", !.error = "NOT_LOGGED_IN"])
          ELSE Upd(r, [l EXCEPT
                        !.partial = partial,
                        !.isResume = isResume,
                        !.dedupe = IF isResume /\ partial.present
                                   THEN hydrateDedupeFromPartial(<<>>, partial)
                                   ELSE <<>>,
                        !.startPage = StartPageOf(isResume, partial, l.resumeFrom),
                        !.pc = "initState"])
    /\ UNCHANGED <<md, call, mig, exportState, dataStore, partialStore, cancelFlag, now>>

ReadPartial2(r) == \E loggedIn \in BOOLEAN : ReadPartial2As(r, loggedIn)

\* mutant of ResumeUnavailable: the unusable snapshot is removed
ResumeUnavailableDropsPartial(r) ==
    /\ rn[r].pc = "resumeUnavailable"
    /\ exportState' = updateState(exportState,
                                  [status |-> "error", error |-> "RESUME_UNAVAILABLE"])
    /\ partialStore' = NoPartial
    /\ Upd(r, Return([rn[r] EXCEPT !.error = "RESUME_UNAVAILABLE"], "error"))
    /\ UNCHANGED <<md, call, mig, dataStore, cancelFlag, now>>

ResumeUnavailable(r) ==
    /\ rn[r].pc = "resumeUnavailable"
    /\ exportState' = updateState(exportState,
                                  [status |-> "error", error |-> "RESUME_UNAVAILABLE"])
    /\ Upd(r, Return([rn[r] EXCEPT !.error = "RESUME_UNAVAILABLE"], "error"))
    /\ UNCHANGED <<md, call, mig, dataStore, partialStore, cancelFlag, now>>

InitState(r) ==
    /\ rn[r].pc = "initState"
    /\ LET l == rn[r]
       IN /\ exportState' = updateState(exportState,
                [status |-> "running", page |-> Max(0, l.startPage - 1),
                 pages |-> NullNum, collected |-> Len(l.dedupe),
                 total |-> NullNum, error |-> NoCode])
          /\ Upd(r, [l EXCEPT !.lastGoodPage = Max(0, l.startPage - 1),
                              !.p = l.startPage, !.pc = "loopTop"])
    /\ UNCHANGED <<md, call, mig, dataStore, partialStore, cancelFlag, now>>

\* mutant of CancelledPatch: the status is left as it is
CancelledPatchNoStatus == [error |-> "CANCELLED"]


\* the state patch written when the loop top sees the cancellation
CancelledPatch == [status |-> "idle", error |-> "CANCELLED"]

LoopTop(r) ==
    /\ rn[r].pc = "loopTop"
    /\ LET l == rn[r]
       IN IF l.cancelRequested \/ cancelFlag
          THEN /\ exportState' = updateState(exportState, CancelledPatch)
               /\ Upd(r, Return([l EXCEPT !.cancelRequested = TRUE, !.error = "CANCELLED",
                                          !.observed = "loopTop"], "cancelled"))
          ELSE /\ Upd(r, [l EXCEPT !.attempt = 1, !.backoff = 0, !.pc = "attemptStart"])
               /\ UNCHANGED exportState
    /\ UNCHANGED <<md, call, mig, dataStore, partialStore, cancelFlag, now>>


\* mutant of AttemptStart: the request is issued without the cancellation
\* check
AttemptStartUnchecked(r) ==
    /\ rn[r].pc = "attemptStart"
    /\ LET l == rn[r]
       IN Upd(r, [l EXCEPT !.pc = "inflight", !.aborted = FALSE,
                           !.firstReq = IF l.firstReq = 0 THEN l.p ELSE l.firstReq])
    /\ UNCHANGED <<md, call, mig, exportState, dataStore, partialStore, cancelFlag, now>>


\* requestWithRetry, up to the fetch: the cancellation check, then the
\* request of page p is issued (apoFetchJson)
AttemptStart(r) ==
    /\ rn[r].pc = "attemptStart"
    /\ LET l == rn[r]
       IN IF l.cancelRequested \/ cancelFlag
          THEN \* throw CANCELLED -> fetchErr -> classifyNetworkFailure -> rethrown
               Upd(r, [l EXCEPT !.cancelRequested = TRUE, !.pc = "catch",
                                !.error = classifyNetworkFailure(NullNum, "null", "CANCELLED").code,
                                !.observed = "attempt"])
          ELSE Upd(r, [l EXCEPT !.pc = "inflight", !.aborted = FALSE,
                                !.firstReq = IF l.firstReq = 0 THEN l.p ELSE l.firstReq])
    /\ UNCHANGED <<md, call, mig, exportState, dataStore, partialStore, cancelFlag, now>>

\* Math.pow(2, n)
RECURSIVE Pow2(_)
Pow2(n) == IF n <= 0 THEN 1 ELSE 2 * Pow2(n - 1)

\* mutant of RetryBackoffMs: the back-off does not grow
RetryBackoffFlat(attempt) == Min(4000, THROTTLE_MS)

\* the in-request back-off slept before attempt + 1
RetryBackoffMs(attempt) == Min(4000, 250 * Pow2(attempt - 1))

\* lastError of pauseExport
PauseLastError(reason, t, rnd) ==
    LET backoffMs == computePauseBackoffMs(rnd)
    IN [code |-> IF reason = NoCode THEN "NETWORK_ERROR" ELSE reason,
        retryable |-> TRUE, at |-> t,
        retry_after_ms |-> backoffMs, retry_at |-> t + backoffMs]

\* the loop body after fetchPage has returned res / thrown fetchErr:
\* classification, then pause / error / merge of the rows of page p
AfterFetch(l, status, jsonOk, err, rnd) ==
    LET failure == classifyNetworkFailure(status, jsonOk, err)
        l1 == [l EXCEPT !.lastStatus = status]
    IN IF failure.code # NoCode
       THEN IF failure.code = "CANCELLED"
            THEN [l1 EXCEPT !.pc = "catch", !.error = "CANCELLED"]
            ELSE IF failure.retryable
            THEN [l1 EXCEPT !.pc = "pauseSnapshot", !.reason = failure.code,
                            !.lastError = PauseLastError(failure.code, now, rnd)]
            ELSE [l1 EXCEPT !.pc = "errorState", !.reason = failure.code]
       ELSE [l1 EXCEPT !.pages = NumPages, !.total = ServerTotal,
                       !.dedupe = MergeRows(l.dedupe, ServerRows(l.p)),
                       !.pc = "pageState"]

\* the response of the server (or the failure of the fetch) arrives:
\* kind "http" with status s (shapeOk: a 2xx body has paging.pages),
\* kind "network" (fetch rejects), kind "timeout" (abort by the 20 s timer)
ReceiveOutcome(r, kind, s, shapeOk, rnd) ==
    /\ rn[r].pc = "inflight"
    /\ ~rn[r].aborted
    /\ LET l == rn[r]
       IN IF kind = "http"
          THEN IF s = 429 \/ (s >= 500 /\ s <= 599)
               THEN IF l.attempt >= RETRY_MAX
                    THEN Upd(r, AfterFetch(l, s, "null", "", rnd))
                    ELSE Upd(r, [l EXCEPT !.lastStatus = s,
                                          !.backoff = RetryBackoffMs(l.attempt),
                                          !.attempt = l.attempt + 1,
                                          !.pc = "attemptStart"])
               ELSE Upd(r, AfterFetch(l, s,
                              IF s >= 200 /\ s <= 299
                              THEN (IF shapeOk THEN "true" ELSE "false")
                              ELSE "null", "", rnd))
          ELSE LET e == IF kind = "timeout" THEN "AbortError" ELSE "Error"
               IN IF e = "AbortError" /\ (l.cancelRequested \/ cancelFlag)
                  THEN Upd(r, AfterFetch(l, NullNum, "null", e, rnd))
                  ELSE IF l.attempt >= RETRY_MAX
                  THEN Upd(r, AfterFetch(l, NullNum, "null", e, rnd))
                  ELSE Upd(r, [l EXCEPT !.lastStatus = NullNum,
                                        !.backoff = RetryBackoffMs(l.attempt),
                                        !.attempt = l.attempt + 1,
                                        !.pc = "attemptStart"])
    /\ UNCHANGED <<md, call, mig, exportState, dataStore, partialStore, cancelFlag, now>>

Receive(r) ==
    \E kind \in {"http", "network", "timeout"}, s \in HttpStatuses,
       shapeOk \in BOOLEAN, rnd \in RandDraws :
        /\ kind # "http" => s = 200
        /\ (kind # "http" \/ s # 200) => shapeOk
        /\ ReceiveOutcome(r, kind, s, shapeOk, rnd)

\* a server that answers every request with a well-formed 200
ReceiveOk(r) == ReceiveOutcome(r, "http", 200, TRUE, 0)

\* the in-flight request was aborted by requestCancel: either the fetch
\* rejects with AbortError, or the response had arrived and reading its
\* body fails (json = null)
ReceiveAborted(r) ==
    /\ rn[r].pc = "inflight"
    /\ rn[r].aborted
    /\ LET l == [rn[r] EXCEPT !.observed = "abort"]
       IN \E inBody \in BOOLEAN, rnd \in RandDraws :
            IF inBody
            THEN Upd(r, AfterFetch(l, 200, "false", "", rnd))
            ELSE Upd(r, AfterFetch(l, NullNum, "null", "AbortError", rnd))
    /\ UNCHANGED <<md, call, mig, exportState, dataStore, partialStore, cancelFlag, now>>

\* mutant of PauseSnapshotPayload: the page being fetched instead of the
\* last page merged
PauseSnapshotAtCurrentPage(l) ==
    buildPartialPayload("paused", l.p, l.pages, l.total, l.dedupe, l.lastError)

\* pauseExport: the snapshot it persists
PauseSnapshotPayload(l) ==
    buildPartialPayload("paused", l.lastGoodPage, l.pages, l.total, l.dedupe, l.lastError)

\* pauseExport: the state patch it writes
PauseStatePatch(l) ==
    [status |-> "paused", page |-> l.lastGoodPage, pages |-> l.pages,
     collected |-> Len(l.dedupe), total |-> l.total,
     error |-> l.lastError.code, last_error |-> l.lastError]

PauseSnapshot(r) ==
    /\ rn[r].pc = "pauseSnapshot"
    /\ partialStore' = PauseSnapshotPayload(rn[r])
    /\ Upd(r, [rn[r] EXCEPT !.pc = "pauseState", !.pausedSnap = PauseSnapshotPayload(rn[r])])
    /\ UNCHANGED <<md, call, mig, exportState, dataStore, cancelFlag, now>>

PauseState(r) ==
    /\ rn[r].pc = "pauseState"
    /\ exportState' = updateState(exportState, PauseStatePatch(rn[r]))
    /\ Upd(r, Return([rn[r] EXCEPT !.error = rn[r].lastError.code], "paused"))
    /\ UNCHANGED <<md, call, mig, dataStore, partialStore, cancelFlag, now>>

ErrorState(r) ==
    /\ rn[r].pc = "errorState"
    /\ exportState' = updateState(exportState, [status |-> "error", error |-> rn[r].reason])
    /\ Upd(r, Return([rn[r] EXCEPT !.error = rn[r].reason], "error"))
    /\ UNCHANGED <<md, call, mig, dataStore, partialStore, cancelFlag, now>>

\* mutant of AfterSnapshotPc: the page counter is advanced twice
AfterSnapshotSkipsPage(l) ==
    IF l.pages # NullNum /\ l.p >= l.pages THEN [l EXCEPT !.pc = "finalWrite"]
    ELSE [l EXCEPT !.p = l.p + 2, !.pc = "loopTop"]


\* where the loop goes after the periodic-snapshot test
AfterSnapshotPc(l) ==
    IF l.pages # NullNum /\ l.p >= l.pages THEN [l EXCEPT !.pc = "finalWrite"]
    ELSE [l EXCEPT !.p = l.p + 1, !.pc = "loopTop"]    \* sleep(THROTTLE_MS); p += 1

PageState(r) ==
    /\ rn[r].pc = "pageState"
    /\ LET l == rn[r]
           l1 == [l EXCEPT !.lastGoodPage = l.p]
       IN /\ exportState' = updateState(exportState,
                [status |-> "running", page |-> l.p, pages |-> l.pages,
                 collected |-> Len(l.dedupe), total |-> l.total, error |-> NoCode])
          /\ IF l.p % SNAPSHOT_EVERY = 0
             THEN Upd(r, [l1 EXCEPT !.pc = "periodicSnapshot"])
             ELSE Upd(r, AfterSnapshotPc(l1))
    /\ UNCHANGED <<md, call, mig, dataStore, partialStore, cancelFlag, now>>

PeriodicSnapshot(r) ==
    /\ rn[r].pc = "periodicSnapshot"
    /\ LET l == rn[r]
       IN /\ partialStore' = buildPartialPayload("running", l.p, l.pages, l.total,
                                                 l.dedupe, NoLastError)
          /\ Upd(r, AfterSnapshotPc(l))
    /\ UNCHANGED <<md, call, mig, exportState, dataStore, cancelFlag, now>>

\* the ExportPayload written on completion
FinalPayload(finalItems) ==
    [present |-> TRUE, total_items |-> Len(finalItems), items |-> finalItems]

FinalWrite(r) ==
    /\ rn[r].pc = "finalWrite"
    /\ LET finalItems == rn[r].dedupe
       IN /\ dataStore' = FinalPayload(finalItems)
          /\ partialStore' = NoPartial
          /\ mig' = OnExportDataChanged(mig, dataStore, FinalPayload(finalItems))
          /\ Upd(r, [rn[r] EXCEPT !.finalItems = finalItems, !.pc = "doneState"])
    /\ UNCHANGED <<md, call, exportState, cancelFlag, now>>

DoneState(r) ==
    /\ rn[r].pc = "doneState"
    /\ LET l == rn[r]
       IN /\ exportState' = updateState(exportState,
                [status |-> "done", pages |-> l.pages, collected |-> Len(l.finalItems),
                 total |-> l.total, error |-> NoCode])
          /\ Upd(r, Return(l, "done"))
    /\ UNCHANGED <<md, call, mig, dataStore, partialStore, cancelFlag, now>>

\* the catch block of runExport
Catch(r) ==
    /\ rn[r].pc = "catch"
    /\ LET l == rn[r]
           error == IF l.error # NoCode THEN l.error ELSE "UNKNOWN"
           partial == readPartialPayload
       IN \E rnd \in RandDraws :
            IF partial.present /\ isTransientErrorCode(error)
            THEN /\ exportState' = updateState(exportState,
                        [status |-> "paused", error |-> error,
                         last_error |-> PauseLastError(error, now, rnd)])
                 /\ Upd(r, Return([l EXCEPT !.error = error], "paused"))
            ELSE /\ exportState' = updateState(exportState,
                        [status |-> "error", error |-> error])
                 /\ Upd(r, Return([l EXCEPT !.error = error], "error"))
    /\ UNCHANGED <<md, call, mig, dataStore, partialStore, cancelFlag, now>>

(***************************************************************************)
(* popup.js: cancel and clear; the runners' storage listener               *)
(***************************************************************************)
\* installCancelListener + requestCancel: the effect on one closure of the
\* change event of mp_export_cancel (newValue = v, changed: it differs
\* from the old value)
OnCancelChanged(l, changed, v) ==
    IF changed /\ v = TRUE /\ l.listening
    THEN [l EXCEPT !.cancelRequested = TRUE,
                   !.aborted = (l.pc = "inflight") \/ l.aborted]
    ELSE l

PopupCancel ==
    /\ exportState.status = "running"          \* cancelBtn.disabled = !isRunning
    /\ exportState' = updateState(exportState, [status |-> "idle", error |-> "CANCELLED"])
    /\ cancelFlag' = TRUE
    /\ rn' = [r \in Runners |-> OnCancelChanged(rn[r], cancelFlag # TRUE, TRUE)]
    /\ UNCHANGED <<md, call, mig, dataStore, partialStore, now>>

PopupClear ==
    /\ exportState' = ClearedState
    /\ dataStore' = NoPayload
    /\ partialStore' = NoPartial
    /\ cancelFlag' = FALSE
    /\ mig' = OnExportDataChanged(mig, dataStore, NoPayload)
    /\ rn' = [r \in Runners |-> [rn[r] EXCEPT !.clearedUnder = @ \/ rn[r].pc # "off"]]
    /\ UNCHANGED <<md, call, now>>

Tick ==
    /\ now < MaxTicks * TickMs
    /\ now' = now + TickMs
    /\ UNCHANGED <<md, call, mig, exportState, dataStore, partialStore, cancelFlag, rn>>

Solo == {"r1"}

Next ==
    \/ \E r \in Solo : Inject(r)
    \/ \E r \in Solo : ReadState(r)
    \/ \E r \in Solo : WaitRead(r)
    \/ \E r \in Solo : WaitLoop(r)
    \/ \E r \in Solo : ReadPartial(r)
    \/ \E r \in Solo : Start(r)
    \/ \E r \in Solo : ReadPartial2(r)
    \/ \E r \in Solo : ResumeUnavailable(r)
    \/ \E r \in Solo : InitState(r)
    \/ \E r \in Solo : LoopTop(r)
    \/ \E r \in Solo : AttemptStart(r)
    \/ \E r \in Solo : Receive(r)
    \/ \E r \in Solo : ReceiveAborted(r)
    \/ \E r \in Solo : PauseSnapshot(r)
    \/ \E r \in Solo : PauseState(r)
    \/ \E r \in Solo : ErrorState(r)
    \/ \E r \in Solo : PageState(r)
    \/ \E r \in Solo : PeriodicSnapshot(r)
    \/ \E r \in Solo : FinalWrite(r)
    \/ \E r \in Solo : DoneState(r)
    \/ \E r \in Solo : Catch(r)
    \/ PopupCancel
    \/ PopupClear
    \/ Tick

\* one export at a time: a single runner closure, any server behaviour
Spec == Init /\ [][Next]_vars

\* two UI surfaces inject the runner concurrently; the server answers
\* every request with a well-formed page
NextTwo ==
    \/ \E r \in Runners : Inject(r)
    \/ \E r \in Runners : ReadState(r)
    \/ \E r \in Runners : ReadPartial(r)
    \/ \E r \in Runners : Start(r)
    \/ \E r \in Runners : ReadPartial2(r)
    \/ \E r \in Runners : ResumeUnavailable(r)
    \/ \E r \in Runners : InitState(r)
    \/ \E r \in Runners : LoopTop(r)
    \/ \E r \in Runners : AttemptStart(r)
    \/ \E r \in Runners : ReceiveOk(r)
    \/ \E r \in Runners : PageState(r)
    \/ \E r \in Runners : PeriodicSnapshot(r)
    \/ \E r \in Runners : FinalWrite(r)
    \/ \E r \in Runners : DoneState(r)
    \/ \E r \in Runners : Catch(r)

SpecTwo == Init /\ [][NextTwo]_vars


(***************************************************************************)
(* Notions used by the properties                                          *)
(***************************************************************************)
NoDuplicateIdentity(items) ==
    \A i, j \in 1..Len(items) : i # j => Identity(items[i]) # Identity(items[j])

IsPrefix(a, b) == Len(a) <= Len(b) /\ \A i \in 1..Len(a) : b[i] = a[i]

\* the pcs at which a closure is inside the page loop
LoopPcs == {"loopTop", "attemptStart", "inflight", "pageState", "periodicSnapshot"}

\* the identities carried by the rows of pages 1..n of the server
RowIdentities(n) ==
    { Identity(mapItemToDataset(ServerRows(q)[i])) :
        <<q, i>> \in { <<q2, i2>> \in (1..n) \X (1..4) : i2 <= Len(ServerRows(q2)) } } \ {""}

\* C1: a run that resumed from the valid snapshot S and completes writes a
\* payload that holds every identity of S.items and no identity twice.
C1_ResumeKeepsItems ==
    \A r \in Runners :
        (rn[r].pc = "doneState" /\ rn[r].isResume /\ rn[r].partial.present) =>
            /\ MapKeys(rn[r].partial.items) \subseteq MapKeys(rn[r].finalItems)
            /\ NoDuplicateIdentity(rn[r].finalItems)

C1_Witness ==
    \E r \in Runners :
        /\ rn[r].pc = "doneState" /\ rn[r].isResume /\ rn[r].partial.present
        /\ rn[r].partial.page = 3
        /\ Len(rn[r].partial.items) >= 3
        /\ Len(rn[r].finalItems) > Len(rn[r].partial.items)
        /\ dataStore.items = rn[r].finalItems

\* C2: of the concurrent invocations of run() at most one is inside the
\* page loop: no closure has a request in flight while another closure is
\* in its loop.
C2_SingleLoop ==
    \A r1, r2 \in Runners :
        (r1 # r2 /\ rn[r1].pc = "inflight") => rn[r2].pc \notin LoopPcs

\* C3: a run that has observed a cancellation ends with status=idle and
\* error=CANCELLED (never in paused or error).
C3_CancelEndsIdle ==
    \A r \in Runners :
        (rn[r].pc = "off" /\ rn[r].observed # "") => rn[r].result = "cancelled"

\* C4: when a run that has merged k >= 1 pages ends on a cancellation, the
\* state is idle/CANCELLED and the stored snapshot holds every item merged
\* so far.
C4_CancelKeepsPartial ==
    [][\A r \in Runners :
         (rn[r].pc = "loopTop" /\ rn'[r].pc = "off" /\ rn'[r].result = "cancelled"
            /\ rn[r].lastGoodPage >= 1) =>
              /\ exportState'.status = "idle"
              /\ exportState'.error = "CANCELLED"
              /\ isValidPartialPayload(partialStore')
              /\ MapKeys(rn[r].dedupe) \subseteq MapKeys(partialStore'.items)]_vars

\* C5: run() called from done or idle with no valid snapshot starts at
\* page 1, whatever page / pages the stored state records.
C5_FreshStartsAtPageOne ==
    \A r \in Runners :
        (rn[r].pc = "start" /\ rn[r].status \in {"done", "idle"} /\ ~rn[r].partial.present)
            => rn[r].resumeFrom = 1

\* C7: a completed run writes total_items = length(items) = collected =
\* the number of distinct identities on the pages of the server.
C7_DoneCounts ==
    [][\A r \in Runners :
         /\ (rn[r].pc = "finalWrite" /\ rn'[r].pc = "doneState") =>
              /\ dataStore'.present
              /\ dataStore'.total_items = Cardinality(RowIdentities(Max(NumPages, rn[r].p)))
              /\ Len(dataStore'.items) = dataStore'.total_items
         /\ (rn[r].pc = "doneState" /\ rn'[r].pc = "off") =>
              /\ exportState'.status = "done"
              /\ exportState'.collected = Cardinality(RowIdentities(Max(NumPages, rn[r].p)))]_vars

C7_Witness ==
    \E r \in Runners :
        /\ rn[r].pc = "doneState"
        /\ dataStore.present
        /\ dataStore.total_items = 5
        /\ ~rn[r].isResume

\* C8: merging a page keeps every entry of the dedupe map as it was (same
\* item, same position): a row whose identity is already in the map adds
\* nothing and replaces nothing, so the first item seen is the one kept.
C8_FirstSeenWins ==
    [][\A r \in Runners :
         (rn[r].pc = "inflight" /\ rn'[r].pc = "pageState") =>
            /\ IsPrefix(rn[r].dedupe, rn'[r].dedupe)
            /\ NoDuplicateIdentity(rn'[r].dedupe)
            /\ ((\A i \in 1..Len(ServerRows(rn[r].p)) :
                    Identity(mapItemToDataset(ServerRows(rn[r].p)[i]))
                        \in MapKeys(rn[r].dedupe) \cup {""})
                  => rn'[r].dedupe = rn[r].dedupe)
            /\ \A i \in 1..Len(ServerRows(rn[r].p)) :
                  LET it == mapItemToDataset(ServerRows(rn[r].p)[i])
                  IN Identity(it) \in MapKeys(rn[r].dedupe) =>
                        dedupePush(rn[r].dedupe, it) = rn[r].dedupe]_vars

\* page 3 repeats comic "a" under another title: the title of page 1 stays
C8_Witness ==
    \E r \in Runners :
        /\ rn[r].pc = "pageState" /\ rn[r].p = 3
        /\ \E i \in 1..Len(rn[r].dedupe) :
              rn[r].dedupe[i].comic_id = "a" /\ rn[r].dedupe[i].title = "A"

\* C10: pauseExport first stores the snapshot (status paused, page = last
\* merged page, all collected items), then writes the paused state with
\* the error code and retry_at = at + retry_after_ms, then returns; the
\* closure issues no request until it is run again.
C10_PauseOrder ==
    [][\A r \in Runners :
         /\ rn[r].pc = "pauseSnapshot" => rn'[r].pc \in {"pauseSnapshot", "pauseState"}
         /\ (rn[r].pc = "pauseSnapshot" /\ rn'[r].pc = "pauseState") =>
              /\ partialStore'.present
              /\ partialStore'.status = "paused"
              /\ partialStore'.page = rn[r].p - 1
              /\ partialStore'.items = rn[r].dedupe
              /\ exportState' = exportState
         /\ rn[r].pc = "pauseState" => rn'[r].pc \in {"pauseState", "off"}
         /\ (rn[r].pc = "pauseState" /\ rn'[r].pc = "off") =>
              /\ exportState'.status = "paused"
              /\ exportState'.error = rn[r].reason
              /\ exportState'.page = rn[r].p - 1
              /\ exportState'.last_error.retry_at =
                    exportState'.last_error.at + exportState'.last_error.retry_after_ms
              /\ exportState'.last_error.at <= now
              /\ partialStore' = partialStore
         /\ rn[r].pc = "off" => rn'[r].pc \in {"off", "readState"}]_vars

C10_Witness ==
    \E r \in Runners :
        /\ rn[r].pc = "pauseState"
        /\ rn[r].lastGoodPage >= 1
        /\ partialStore.present /\ partialStore.page = rn[r].lastGoodPage
        /\ exportState.status = "running"


\* C9 as claimed: the persisted status only changes along idle->running,
\* done->running, paused->running, running->done, running->paused,
\* running->error, running->idle.
C9_ClaimedTransitions ==
    { <<"idle", "running">>, <<"done", "running">>, <<"paused", "running">>,
      <<"running", "done">>, <<"running", "paused">>, <<"running", "error">>,
      <<"running", "idle">> }

ReceiveScenarioB(r) ==
    IF ~rn[r].isResume /\ rn[r].p >= 2
    THEN IF rn[r].attempt = 1
         THEN \/ ReceiveOk(r)
              \/ ReceiveOutcome(r, "http", 503, TRUE, 0)
         ELSE ReceiveOutcome(r, "http", 503, TRUE, 0)
    ELSE ReceiveOk(r)

RunnerStepB(r) ==
    \/ Inject(r)
    \/ ReadState(r)
    \/ WaitRead(r)
    \/ WaitLoop(r)
    \/ ReadPartial(r)
    \/ Start(r)
    \/ ReadPartial2As(r, TRUE)
    \/ InitState(r)
    \/ LoopTop(r)
    \/ AttemptStart(r)
    \/ ReceiveScenarioB(r)
    \/ PauseSnapshot(r)
    \/ PauseState(r)
    \/ PageState(r)
    \/ PeriodicSnapshot(r)
    \/ FinalWrite(r)
    \/ DoneState(r)

NextB ==
    \/ \E r \in Solo : RunnerStepB(r)
    \/ Tick

\* every ready continuation of the closure is run by the event loop, the
\* clock advances, and the user starts the next run
SpecB == Init /\ [][NextB]_vars /\ WF_vars(Tick) /\ \A r \in Solo : WF_vars(RunnerStepB(r))

\* C6: after k >= 1 merged pages, three 503 answers for page k+1 end the
\* run paused with HTTP_503 and a snapshot of exactly the items of pages
\* 1..k; the following run requests only the pages after k and ends done
\* with the items of all pages, no identity twice.
C6_ScenarioB ==
    /\ [][\A r \in Solo :
            /\ (rn[r].pc = "inflight" /\ rn[r].attempt = RETRY_MAX
                  /\ rn'[r].pc # "inflight" /\ rn'[r].lastStatus = 503) =>
                    (rn'[r].pc = "pauseSnapshot" /\ rn'[r].reason = "HTTP_503")
            /\ (rn[r].pc = "pauseSnapshot" /\ rn'[r].pc = "pauseState") =>
                    /\ partialStore'.page = rn[r].p - 1
                    /\ MapKeys(partialStore'.items) = RowIdentities(rn[r].p - 1)
                    /\ NoDuplicateIdentity(partialStore'.items)
            /\ (rn[r].pc = "pauseState" /\ rn'[r].pc = "off") =>
                    /\ exportState'.status = "paused"
                    /\ exportState'.error = "HTTP_503"
                    /\ partialStore'.page = exportState'.page
            /\ (rn[r].isResume /\ rn[r].pc = "attemptStart" /\ rn'[r].pc = "inflight") =>
                    rn[r].p > rn[r].partial.page
            /\ (rn[r].isResume /\ rn[r].pc = "doneState" /\ rn'[r].pc = "off") =>
                    /\ exportState'.status = "done"
                    /\ MapKeys(dataStore'.items) = RowIdentities(NumPages)
                    /\ NoDuplicateIdentity(dataStore'.items)]_vars
    /\ (exportState.status = "paused" /\ exportState.error = "HTTP_503"
          /\ exportState.last_error.retry_at <= MaxTicks * TickMs)
          ~> (exportState.status = "done" /\ exportState.page = NumPages
                /\ dataStore.present /\ ~partialStore.present)

C6_Witness ==
    \E r \in Solo :
        /\ rn[r].pc = "doneState" /\ rn[r].isResume
        /\ rn[r].partial.page = 1
        /\ rn[r].partial.last_error.code = "HTTP_503"
        /\ rn[r].firstReq = 2
        /\ Len(dataStore.items) = 5

\* the non-2xx statuses outside {429, 403, 408, 5xx} that the server sends
FatalStatuses ==
    { s \in HttpStatuses : /\ ~(s >= 200 /\ s <= 299)
                           /\ s \notin {429, 403, 408}
                           /\ ~(s >= 500 /\ s <= 599) }

PreLoopPcs == {"readState", "waitRead", "waitLoop", "readPartial", "start", "readPartial2"}

\* C12: when getCurrentUserId finds no user id, the run has issued no page
\* request and written no state (so never status=running), and it ends
\* with status=error, error=NOT_LOGGED_IN, also when a snapshot is stored.
C12_NotLoggedIn ==
    [][\A r \in Solo :
         /\ (rn[r].pc \in PreLoopPcs /\ rn'[r].pc # rn[r].pc) =>
                 /\ exportState' = exportState
                 /\ rn[r].firstReq = 0 /\ rn'[r].firstReq = 0
         /\ (rn[r].pc = "readPartial2" /\ rn'[r].pc = "catch") =>
                 rn'[r].error = "NOT_LOGGED_IN"
         /\ (rn[r].pc = "catch" /\ rn[r].error = "NOT_LOGGED_IN"
               /\ rn'[r].pc # "catch") =>
                 /\ rn'[r].pc = "off" /\ rn'[r].result = "error"
                 /\ rn[r].firstReq = 0
                 /\ exportState'.status = "error"
                 /\ exportState'.error = "NOT_LOGGED_IN"]_vars

\* a resume from a paused export finds the user logged out
C12_Witness ==
    \E r \in Solo :
        /\ rn[r].pc = "off" /\ rn[r].result = "error" /\ rn[r].error = "NOT_LOGGED_IN"
        /\ exportState.status = "error" /\ exportState.error = "NOT_LOGGED_IN"
        /\ partialStore.present /\ partialStore.status = "paused"

\* C13: a resume (resumeFromPage > 1) that finds no valid snapshot (absent,
\* no items, or page < 1) ends with status=error, error=RESUME_UNAVAILABLE,
\* has issued no page request and leaves the snapshot and the payload as
\* they were.
C13_ResumeUnavailable ==
    [][\A r \in Solo :
         /\ (rn[r].pc = "readPartial2" /\ rn'[r].pc # "readPartial2"
               /\ rn[r].resumeFrom > 1
               /\ ~(partialStore.present /\ Len(partialStore.items) > 0
                      /\ partialStore.page >= 1)) =>
                 rn'[r].pc = "resumeUnavailable"
         /\ (rn[r].pc = "resumeUnavailable" /\ rn'[r].pc # "resumeUnavailable") =>
                 /\ rn'[r].pc = "off" /\ rn'[r].result = "error"
                 /\ rn[r].firstReq = 0
                 /\ exportState'.status = "error"
                 /\ exportState'.error = "RESUME_UNAVAILABLE"
                 /\ partialStore' = partialStore
                 /\ dataStore' = dataStore]_vars

\* a resume is refused while a stored snapshot is invalid (page 0, no items)
C13_Witness ==
    \E r \in Solo :
        /\ rn[r].pc = "resumeUnavailable"
        /\ rn[r].resumeFrom > 1
        /\ partialStore.present
        /\ partialStore.page < 1 /\ Len(partialStore.items) = 0

\* the statuses requestWithRetry retries at once
RetriedStatuses == { s \in HttpStatuses : s = 429 \/ (s >= 500 /\ s <= 599) }

ClassifyStatuses ==
    {NullNum, 200, 201, 299, 300, 400, 401, 403, 404, 408, 429, 499, 500, 503, 599}

\* err of the classified outcome: none, a thrown Error, an AbortError, the
\* CANCELLED error of requestWithRetry
ClassifyErrs == {"", "Error", "AbortError", "CANCELLED"}

ClassifyCalls ==
    { [NoCall EXCEPT !.fn = "classifyNetworkFailure", !.status = s,
                     !.jsonOk = j, !.err = e] :
        s \in ClassifyStatuses, j \in {"true", "false", "null"}, e \in ClassifyErrs }

\* every value floor(Math.random() * (span + 1)) can take
BackoffCalls ==
    { [NoCall EXCEPT !.fn = "computePauseBackoffMs", !.rnd = k] : k \in 0..(RandDen - 1) }

InitFn ==
    /\ exportState = ClearedState
    /\ dataStore = NoPayload
    /\ partialStore = NoPartial
    /\ cancelFlag = FALSE
    /\ now = 0
    /\ rn = [r \in Runners |-> FreshLocals]
    /\ call \in ClassifyCalls \cup BackoffCalls
    /\ mig = NoPanel
    /\ md = NoMatcher

ApplyClassify ==
    /\ call.fn = "classifyNetworkFailure" /\ ~call.done
    /\ LET failure == classifyNetworkFailure(call.status, call.jsonOk, call.err)
       IN call' = [call EXCEPT !.done = TRUE, !.retryable = failure.retryable,
                               !.code = failure.code]
    /\ UNCHANGED <<md, mig, exportState, dataStore, partialStore, cancelFlag, now, rn>>

\* the back-off as returned, and as pauseExport records it in last_error
ApplyBackoff ==
    /\ call.fn = "computePauseBackoffMs" /\ ~call.done
    /\ call' = [call EXCEPT !.done = TRUE,
                            !.ms = computePauseBackoffMs(call.rnd),
                            !.recorded = PauseLastError("HTTP_503", now, call.rnd).retry_after_ms]
    /\ UNCHANGED <<md, mig, exportState, dataStore, partialStore, cancelFlag, now, rn>>

NextFn ==
    \/ ApplyClassify
    \/ ApplyBackoff

SpecFn == InitFn /\ [][NextFn]_vars

\* the code HTTP_<s> of the statuses drawn
HttpCodeTable(s) ==
    CASE s = 300 -> "HTTP_300" [] s = 400 -> "HTTP_400" [] s = 401 -> "HTTP_401"
      [] s = 403 -> "HTTP_403" [] s = 404 -> "HTTP_404" [] s = 408 -> "HTTP_408"
      [] s = 429 -> "HTTP_429" [] s = 499 -> "HTTP_499" [] s = 500 -> "HTTP_500"
      [] s = 503 -> "HTTP_503" [] s = 599 -> "HTTP_599" [] OTHER -> "?"

\* C15: the classifier answers retryable HTTP_<s> for 429, 403, 408 and
\* 5xx, non-retryable HTTP_<s> for any other non-2xx status, retryable
\* NETWORK_ERROR for a thrown non-abort error, retryable TIMEOUT for an
\* abort error, retryable BAD_RESPONSE for a 2xx response of invalid
\* shape, and no failure (empty code) for a 2xx response of valid shape.
C15_Classifier ==
    (call.fn = "classifyNetworkFailure" /\ call.done) =>
        LET s == call.status
            is2xx == s >= 200 /\ s <= 299
            out == <<call.retryable, call.code>>
        IN /\ call.err = "Error" => out = <<TRUE, "NETWORK_ERROR">>
           /\ call.err = "AbortError" => out = <<TRUE, "TIMEOUT">>
           /\ (call.err = "" /\ s # NullNum /\ ~is2xx) =>
                 out = << s \in {429, 403, 408} \/ (s >= 500 /\ s <= 599),
                          HttpCodeTable(s) >>
           /\ (call.err = "" /\ is2xx /\ call.jsonOk = "false") =>
                 out = <<TRUE, "BAD_RESPONSE">>
           /\ (call.err = "" /\ is2xx /\ call.jsonOk = "true") =>
                 out = <<FALSE, "">>

\* an AbortError has been classified although a 2xx response is at hand
C15_Witness ==
    /\ call.fn = "classifyNetworkFailure" /\ call.done
    /\ call.err = "AbortError" /\ call.status = 200
    /\ call.code = "TIMEOUT" /\ call.retryable

\* C16: computePauseBackoffMs returns an integer of 5000..15000 for every
\* random draw, and so is the retry_after_ms that pauseExport records.
C16_BackoffRange ==
    (call.fn = "computePauseBackoffMs" /\ call.done) =>
        /\ call.ms \in 5000..15000
        /\ call.recorded \in 5000..15000
        /\ call.recorded = call.ms

\* the largest draw gives the largest back-off
C16_Witness ==
    /\ call.fn = "computePauseBackoffMs" /\ call.done
    /\ call.rnd = RandDen - 1
    /\ call.ms = 15000

\* C17: every snapshot the engine writes (after each 5th page and on
\* pause, in fresh and in resumed runs) holds every identity of the
\* snapshot stored before it.
C17_SnapshotGrows ==
    [][(partialStore' # partialStore /\ partialStore'.present) =>
          MapKeys(partialStore.items) \subseteq MapKeys(partialStore'.items)]_vars

\* a resumed run has replaced the snapshot it resumed from by a larger one
C17_Witness ==
    \E r \in Solo :
        /\ rn[r].isResume /\ rn[r].partial.present
        /\ rn[r].pc \in {"pauseState", "loopTop", "finalWrite"}
        /\ partialStore.present
        /\ partialStore # rn[r].partial
        /\ Len(partialStore.items) > Len(rn[r].partial.items)

\* C18: when a run ends in paused or in error, every item it had collected
\* is in the stored partial snapshot.
C18_FailedRunKeepsItems ==
    [][\A r \in Solo :
         (rn[r].pc # "off" /\ rn'[r].pc = "off"
            /\ rn'[r].result \in {"paused", "error"}) =>
              MapKeys(rn[r].dedupe) \subseteq MapKeys(partialStore'.items)]_vars

\* the positions of a run after its first state write
InRunPcs ==
    LoopPcs \cup {"pauseSnapshot", "pauseState", "errorState", "finalWrite",
                  "doneState", "catch"}

\* C19: after its first write (status=running, page = startPage - 1) no
\* state write of a run lowers collected or page, and the write after a
\* merged page sets page to one more than the page the run wrote last.
C19_Monotone ==
    [][\A r \in Solo :
         /\ (rn[r].pc = "initState" /\ rn'[r].pc # "initState") =>
                 /\ exportState'.page = rn'[r].lastGoodPage
                 /\ exportState'.collected = Len(rn[r].dedupe)
         /\ (rn[r].pc \in InRunPcs /\ rn'[r].pc # rn[r].pc) =>
                 /\ exportState'.page >= exportState.page
                 /\ exportState'.collected >= exportState.collected
         /\ (rn[r].pc = "pageState" /\ rn'[r].pc # "pageState") =>
                 /\ exportState'.page = rn[r].lastGoodPage + 1
                 /\ rn'[r].lastGoodPage = exportState'.page
                 /\ exportState'.collected = Len(rn[r].dedupe)]_vars

\* a resumed run has written the state of its second merged page
C19_Witness ==
    \E r \in Solo :
        /\ rn[r].isResume /\ rn[r].pc = "loopTop"
        /\ rn[r].lastGoodPage = rn[r].startPage + 1
        /\ exportState.status = "running"
        /\ exportState.page = rn[r].lastGoodPage
        /\ exportState.collected = Len(rn[r].dedupe)
        /\ exportState.collected > Len(rn[r].partial.items)

(***************************************************************************)
(* migrate.js: the migration panel next to a logged-in export whose        *)
(* server fails as in scenario B.                                          *)
(***************************************************************************)
\* load(): exportPayload = data[mp_export_follows] || data[mp_export_partial]
MigrateLoad ==
    /\ mig' = IF dataStore.present
              THEN [loaded |-> TRUE, hasPayload |-> TRUE, items |-> dataStore.items]
              ELSE IF partialStore.present
              THEN [loaded |-> TRUE, hasPayload |-> TRUE, items |-> partialStore.items]
              ELSE [loaded |-> TRUE, hasPayload |-> FALSE, items |-> <<>>]
    /\ mig' # mig
    /\ UNCHANGED <<md, exportState, dataStore, partialStore, cancelFlag, now, rn, call>>

\* persistItems: exportPayload, with the panel's items, is stored as
\* mp_export_follows (the panel's own listener sees the same items)
persistItems(newItems) ==
    IF mig.hasPayload
    THEN dataStore' = [present |-> TRUE, total_items |-> Len(newItems), items |-> newItems]
    ELSE dataStore' = dataStore

\* removeBtn: items.splice(index, 1), then persistItems
MigrateRemove ==
    /\ mig.loaded
    /\ Len(mig.items) > 0
    /\ \E index \in {1, Len(mig.items)} :
         LET newItems == SubSeq(mig.items, 1, index - 1)
                           \o SubSeq(mig.items, index + 1, Len(mig.items))
         IN /\ mig' = [mig EXCEPT !.items = newItems]
            /\ persistItems(newItems)
    /\ UNCHANGED <<md, exportState, partialStore, cancelFlag, now, rn, call>>

\* clearAllBtn: items = [], then persistItems
MigrateClearAll ==
    /\ mig.loaded
    /\ Len(mig.items) > 0
    /\ mig' = [mig EXCEPT !.items = <<>>]
    /\ persistItems(<<>>)
    /\ UNCHANGED <<md, exportState, partialStore, cancelFlag, now, rn, call>>

NextM ==
    \/ \E r \in Solo : RunnerStepB(r)
    \/ Tick
    \/ MigrateLoad
    \/ MigrateRemove
    \/ MigrateClearAll

SpecM == Init /\ [][NextM]_vars

\* C20: mp_export_follows is only ever created by the final write of an
\* export whose last page (p >= pages) has been merged, in the same write
\* that removes the partial snapshot; nothing creates it from a partial
\* snapshot.
C20_PayloadOnlyOnCompletion ==
    [][(~dataStore.present /\ dataStore'.present) =>
          \E r \in Solo :
              /\ rn[r].pc = "finalWrite" /\ rn'[r].pc = "doneState"
              /\ rn[r].p >= rn[r].pages
              /\ ~partialStore'.present
              /\ exportState.status # "done"]_vars

\* C21: every failure inside run() is caught (the closure returns only
\* from a position that has written a state, or from the running guard),
\* and when a run that passed the guard has returned, the stored status is
\* done, paused, error or idle, not running.
C21_TerminalStatus ==
    [][\A r \in Solo :
         /\ (rn[r].pc # "off" /\ rn'[r].pc = "off") =>
                 /\ rn[r].pc \in {"readState", "resumeUnavailable", "loopTop", "pauseState",
                                  "errorState", "doneState", "catch"}
                 /\ rn'[r].result \in {"noop", "done", "paused", "error", "cancelled"}
                 /\ rn'[r].result = "noop" <=> rn[r].pc = "readState"
                 /\ rn'[r].result = "done" => exportState'.status = "done"
                 /\ rn'[r].result = "paused" => exportState'.status = "paused"
                 /\ rn'[r].result = "error" => exportState'.status = "error"
                 /\ rn'[r].result = "cancelled" => exportState'.status = "idle"
         /\ (rn'[r].pc = "off" /\ rn'[r].result \notin {"none", "noop"}) =>
                 exportState'.status \in {"done", "paused", "error", "idle"}]_vars

\* a run has returned from the loop-top cancellation after merged pages
C21_Witness ==
    \E r \in Solo :
        /\ rn[r].pc = "off" /\ rn[r].result = "cancelled"
        /\ exportState.status = "idle" /\ exportState.error = "CANCELLED"
        /\ exportState.page >= 1

(***************************************************************************)
(* A server that serves every request, a logged-in user, no cancel and no  *)
(* clear.  The export starts from empty storage or from the storage a run  *)
(* paused after page k (three 503 answers for page k + 1 at time 0) has    *)
(* left behind.                                                            *)
(***************************************************************************)
\* the dedupe Map after pages 1..k
RECURSIVE ItemsOfPages(_)
ItemsOfPages(k) == IF k <= 0 THEN <<>> ELSE MergeRows(ItemsOfPages(k - 1), ServerRows(k))

\* what pauseExport stored for a pause after page k
PausedLocals(k) ==
    [FreshLocals EXCEPT !.lastGoodPage = k, !.pages = NumPages, !.total = ServerTotal,
                        !.dedupe = ItemsOfPages(k),
                        !.lastError = PauseLastError("HTTP_503", 0, 0)]

InitOk ==
    /\ \E k \in 0..(NumPages - 1) :
         IF k = 0
         THEN exportState = ClearedState /\ partialStore = NoPartial
         ELSE /\ partialStore = PauseSnapshotPayload(PausedLocals(k))
              /\ exportState = updateState(ClearedState, PauseStatePatch(PausedLocals(k)))
    /\ dataStore = NoPayload
    /\ cancelFlag = FALSE
    /\ now = 0
    /\ rn = [r \in Runners |-> FreshLocals]
    /\ call = NoCall
    /\ mig = NoPanel
    /\ md = NoMatcher

RunnerStepOk(r) ==
    \/ Inject(r)
    \/ ReadState(r)
    \/ WaitRead(r)
    \/ WaitLoop(r)
    \/ ReadPartial(r)
    \/ Start(r)
    \/ ReadPartial2As(r, TRUE)
    \/ InitState(r)
    \/ LoopTop(r)
    \/ AttemptStart(r)
    \/ ReceiveOk(r)
    \/ PageState(r)
    \/ PeriodicSnapshot(r)
    \/ FinalWrite(r)
    \/ DoneState(r)

NextOk ==
    \/ \E r \in Solo : RunnerStepOk(r)
    \/ Tick

SpecOk == InitOk /\ [][NextOk]_vars /\ WF_vars(Tick) /\ \A r \in Solo : WF_vars(RunnerStepOk(r))

\* C22: with NumPages pages, every request served and no cancellation, a
\* run reaches status=done; its first request is for the start page, each
\* request is the only one for its page and is for the page after the one
\* requested before, and the run completes after the request for the last
\* page.
C22_Completes ==
    /\ [][\A r \in Solo :
            /\ (rn[r].pc = "attemptStart" /\ rn'[r].pc = "inflight") =>
                    /\ rn[r].attempt = 1
                    /\ rn[r].p = rn[r].lastGoodPage + 1
                    /\ rn[r].p >= rn[r].startPage /\ rn[r].p <= NumPages
                    /\ rn[r].firstReq = 0 => rn[r].p = rn[r].startPage
                    /\ rn[r].startPage = (IF rn[r].partial.present
                                          THEN rn[r].partial.page + 1 ELSE 1)
            /\ (rn[r].pc = "inflight" /\ rn'[r].pc # "inflight") =>
                    rn'[r].pc = "pageState"
            /\ (rn[r].pc = "doneState" /\ rn'[r].pc = "off") =>
                    /\ rn[r].lastGoodPage = NumPages
                    /\ exportState'.status = "done"]_vars
    /\ \A r \in Solo :
          (rn[r].pc = "readState") ~>
              (rn[r].pc = "off" /\ rn[r].result = "done" /\ exportState.status = "done")

\* a run resumed after page 2 is about to complete
C22_Witness ==
    \E r \in Solo :
        /\ rn[r].pc = "doneState" /\ rn[r].isResume
        /\ rn[r].startPage = 3 /\ rn[r].firstReq = 3
        /\ rn[r].lastGoodPage = NumPages

(***************************************************************************)
(* The fuzzy matcher.  A title is a sequence of characters; a score is the *)
(* exact fraction [n, d] with d > 0 (the code computes it as a double).    *)
(***************************************************************************)
Frac(n, d) == [n |-> n, d |-> d]

FracGt(x, y) == x.n * y.d > y.n * x.d

FracGe(x, y) == x.n * y.d >= y.n * x.d

\* Math.round(score * 1000) / 1000
Round3(x) == Frac((2000 * x.n + x.d) \div (2 * x.d), 1000)

MD_MATCH_MIN_SCORE == Frac(72, 100)

\* String.prototype.trim
Trim(s) ==
    LET RECURSIVE TrimLeft(_)
        TrimLeft(t) == IF t # <<>> /\ t[1] = " " THEN TrimLeft(Tail(t)) ELSE t
        RECURSIVE TrimRight(_)
        TrimRight(t) ==
            IF t # <<>> /\ t[Len(t)] = " " THEN TrimRight(SubSeq(t, 1, Len(t) - 1)) ELSE t
    IN TrimRight(TrimLeft(s))

\* fold accents/diacritics, lowercase, collapse every run of characters
\* outside [a-z0-9] to one space, trim
normalizeForMatch(s) ==
    LET FoldChar(c) ==
            CASE c = "A" -> "a"
              [] c = "B" -> "b"
              [] c = "C" -> "c"
              [] c = "F" -> "f"
              [] c = "K" -> "k"
              [] c = "O" -> "o"
              [] c = "P" -> "p"
              [] c = "Z" -> "z"
              [] c = "é" -> "e"
              [] c = "É" -> "e"
              [] OTHER -> c
        IsAlnum(c) ==
            c \in {"a", "b", "c", "d", "e", "f", "g", "h", "i", "j", "k", "l", "m",
                   "n", "o", "p", "q", "r", "s", "t", "u", "v", "w", "x", "y", "z",
                   "0", "1", "2", "3", "4", "5", "6", "7", "8", "9"}
        SpaceOut(t) ==
            [i \in DOMAIN t |-> IF IsAlnum(FoldChar(t[i])) THEN FoldChar(t[i]) ELSE " "]
        RECURSIVE CollapseSpaces(_)
        CollapseSpaces(t) ==
            IF Len(t) < 2 THEN t
            ELSE IF t[1] = " " /\ t[2] = " " THEN CollapseSpaces(Tail(t))
            ELSE <<t[1]>> \o CollapseSpaces(Tail(t))
    IN Trim(CollapseSpaces(SpaceOut(s)))

Bigrams(s) == [i \in 1..(Len(s) - 1) |-> <<s[i], s[i + 1]>>]

\* every bigram of x that occurs in y counts, however often y has it
diceCoefficientSetCount(a, b) ==
    LET na == normalizeForMatch(a)
        nb == normalizeForMatch(b)
        x == Bigrams(na)
        y == Bigrams(nb)
        shared == Cardinality({i \in DOMAIN x : \E j \in DOMAIN y : x[i] = y[j]})
    IN IF na = <<>> \/ nb = <<>> THEN Frac(0, 1)
       ELSE IF na = nb THEN Frac(1, 1)
       ELSE IF Len(na) < 2 \/ Len(nb) < 2 THEN Frac(0, 1)
       ELSE Frac(2 * shared, Len(x) + Len(y))

\* 2 * |shared bigrams| / (|bigrams(a)| + |bigrams(b)|) over the normalized
\* strings, the shared bigrams counted as a multiset intersection
diceCoefficient(a, b) ==
    LET na == normalizeForMatch(a)
        nb == normalizeForMatch(b)
        x == Bigrams(na)
        y == Bigrams(nb)
        CountOf(bs, g) == Cardinality({i \in DOMAIN bs : bs[i] = g})
        RECURSIVE SharedOver(_)
        SharedOver(grams) ==
            IF grams = {} THEN 0
            ELSE LET g == CHOOSE h \in grams : TRUE
                 IN Min(CountOf(x, g), CountOf(y, g)) + SharedOver(grams \ {g})
    IN IF na = <<>> \/ nb = <<>> THEN Frac(0, 1)
       ELSE IF na = nb THEN Frac(1, 1)
       ELSE IF Len(na) < 2 \/ Len(nb) < 2 THEN Frac(0, 1)
       ELSE Frac(2 * SharedOver({x[i] : i \in DOMAIN x}), Len(x) + Len(y))

scoreMdCandidate(mpTitle, mdTitle, mdAltTitles) ==
    LET RECURSIVE BestAlt(_, _)
        BestAlt(alts, best) ==
            IF alts = <<>> THEN best
            ELSE LET s == diceCoefficient(mpTitle, Head(alts))
                 IN BestAlt(Tail(alts), IF FracGt(s, best) THEN s ELSE best)
    IN BestAlt(mdAltTitles, diceCoefficient(mpTitle, mdTitle))

(***************************************************************************)
(* migrate.js: the MangaDex auto-match driver of an open panel.            *)
(*   md.stState / md.stResults / md.stCancel   storage[md_match_state],    *)
(*                       storage[md_match_results], storage[md_match_cancel]*)
(*   md.state / md.results   mdMatchState and mdMatchResults in memory     *)
(*   md.pc / md.i / md.matched / md.it / md.attempt   mdRunAutoMatch and   *)
(*                       mdSearchMangaByTitle at their await points        *)
(*   md.hint / md.waitMs   the retry-after of the last 429 and the wait    *)
(* Indexes are the code's (from 0); element i of an array is list[i + 1].  *)
(***************************************************************************)
T_OnePiece == <<"O", "n", "e", " ", "P", "i", "e", "c", "e">>
T_Berserk == <<"B", "e", "r", "s", "e", "r", "k">>
T_Berserker == <<"B", "e", "r", "s", "e", "r", "k", "e", "r">>
T_Abcd == <<"a", "b", "c", "d">>

\* the items of the export the panel has loaded
MdItems ==
    << [title |-> T_OnePiece, mangapark_url |-> "/title/one-piece", comic_id |-> "1"],
       [title |-> <<" ">> \o T_Berserk, mangapark_url |-> "/title/berserk", comic_id |-> "2"],
       [title |-> <<" ">>, mangapark_url |-> "/title/blank", comic_id |-> "3"],
       [title |-> T_Abcd, mangapark_url |-> "/title/abcd", comic_id |-> "4"] >>

MdRow(id, hasAttr, title, alts) ==
    [id |-> id, hasAttr |-> hasAttr, title |-> title, alts |-> alts]

\* json.data of the search endpoint for a query
MdSearchRows(q) ==
    CASE q = T_OnePiece -> << MdRow("md-zz", TRUE, <<"Z", "z">>, <<>>) >>
      [] q = T_Berserk ->
            << MdRow("md-berserker", TRUE, T_Berserker, <<>>),
               MdRow("", TRUE, T_Berserk, <<>>),
               MdRow("md-noattr", FALSE, T_Berserk, <<>>),
               MdRow("md-kd", TRUE, <<"K", "d">>, << <<"z">>, T_Berserk \o <<"!">> >>),
               MdRow("md-berserk", TRUE, T_Berserk, <<>>) >>
      [] q = T_Abcd ->
            << MdRow("md-zz", TRUE, <<"Z", "z">>, <<>>),
               MdRow("md-abce", TRUE, <<"a", "b", "c", "e">>, <<>>),
               MdRow("md-abcf", TRUE, <<"A", "B", "C", "F">>, <<>>) >>
      [] OTHER -> <<>>

\* an index mdMatchResults has never assigned
NoResult ==
    [set |-> FALSE, processed |-> FALSE, mpTitle |-> <<>>, mpUrl |-> "", md |-> "",
     score |-> Frac(0, 1000), candidates |-> <<>>]

\* mdMatchResults[i] = { mpTitle: "", md: null, score: 0, candidates: [] }
EmptyTitleResult == [NoResult EXCEPT !.set = TRUE]

\* mdMatchResults.length = items.length when it is shorter
PadResults(list, n) ==
    IF Len(list) < n THEN list \o [k \in 1..(n - Len(list)) |-> NoResult] ELSE list

ResultAt(list, i) == IF i + 1 \in DOMAIN list THEN list[i + 1] ELSE NoResult

SetResultAt(list, i, v) == [PadResults(list, i + 1) EXCEPT ![i + 1] = v]

\* a comparison that lets a later row of the same score replace the best
ScanKeepsLast(score, bestScore) == FracGt(score, Frac(0, 1)) /\ FracGe(score, bestScore)

\* if (score > bestScore): the first row of a top score stays the best
ScanReplaces(score, bestScore) == FracGt(score, bestScore)

\* the loop over the rows of one search: candidates, best and bestScore
RECURSIVE ScanRows(_, _, _)
ScanRows(rows, mpTitle, acc) ==
    IF rows = <<>> THEN acc
    ELSE LET row == Head(rows)
             score == scoreMdCandidate(mpTitle, row.title, row.alts)
             cand == [id |-> row.id, score |-> Round3(score)]
         IN IF row.id = "" \/ ~row.hasAttr
            THEN ScanRows(Tail(rows), mpTitle, acc)
            ELSE ScanRows(Tail(rows), mpTitle,
                          [candidates |-> Append(acc.candidates, cand),
                           best |-> IF ScanReplaces(score, acc.bestScore) THEN row.id ELSE acc.best,
                           bestScore |-> IF ScanReplaces(score, acc.bestScore)
                                         THEN score ELSE acc.bestScore])

ScanStart == [candidates |-> <<>>, best |-> "", bestScore |-> Frac(0, 1)]

\* mdMatchResults[i] of a searched item
MatchResultOf(it, mpTitle, scan) ==
    [set |-> TRUE, processed |-> TRUE, mpTitle |-> mpTitle, mpUrl |-> it.mangapark_url,
     md |-> scan.best, score |-> Round3(scan.bestScore),
     candidates |-> SubSeq(scan.candidates, 1, Min(5, Len(scan.candidates)))]

\* a persist that writes the state and never the results
persistStateOnly(m, st, withResults) ==
    [m EXCEPT !.stState = [st EXCEPT !.present = TRUE],
              !.state = [st EXCEPT !.present = TRUE]]


\* persistMdMatchStateAndResults(state, results) on the matcher m
persistMdMatchStateAndResults(m, st, withResults) ==
    [m EXCEPT !.stState = [st EXCEPT !.present = TRUE],
              !.state = [st EXCEPT !.present = TRUE],
              !.stResults = IF withResults
                            THEN [present |-> TRUE, list |-> m.results.list]
                            ELSE @]

\* isRunning of setMdButtonsState
MdIsRunning == md.running \/ md.state.status = "running"

\* hasAny of setMdButtonsState
MdHasAny == md.results.isArray /\ Len(md.results.list) > 0

\* the panel after load() over a finished export and no match keys
InitMd ==
    /\ exportState = [ClearedState EXCEPT !.status = "done", !.page = 1, !.pages = 1,
                                          !.collected = Len(MdItems), !.total = Len(MdItems)]
    /\ dataStore = [present |-> TRUE, total_items |-> Len(MdItems), items |-> MdItems]
    /\ partialStore = NoPartial
    /\ cancelFlag = FALSE
    /\ now = 0
    /\ rn = [r \in Runners |-> FreshLocals]
    /\ call = NoCall
    /\ mig = [loaded |-> TRUE, hasPayload |-> TRUE, items |-> MdItems]
    /\ md = [NoMatcher EXCEPT !.state = [NoMdState EXCEPT !.present = TRUE]]

MdOthers == UNCHANGED <<exportState, dataStore, partialStore, cancelFlag, now, rn, call, mig>>


\* mdRunAutoMatch returns: its locals are gone, finally clears mdMatchRunning
MdReturn(m) ==
    [m EXCEPT !.pc = "idle", !.running = FALSE, !.i = 0, !.matched = 0,
              !.it = NoMatcher.it, !.attempt = 0, !.err = ""]

\* mdMatchStartBtn (enabled when there are items and nothing is running):
\* mdRunAutoMatch up to its first await, setMdCancelFlag(false)
MdStart ==
    /\ md.pc = "idle" /\ ~md.running
    /\ Len(mig.items) > 0
    /\ ~MdIsRunning
    /\ md' = [md EXCEPT !.running = TRUE, !.pc = "clearCancel"]
    /\ MdOthers

\* setMdCancelFlag(false) has written
MdClearCancel ==
    /\ md.pc = "clearCancel"
    /\ md' = [md EXCEPT !.stCancel = FALSE, !.pc = "begin"]
    /\ MdOthers

\* load the stored state and results when one of the copies is missing, pad
\* the results, choose startIndex and persist the running state
MdBegin ==
    /\ md.pc = "begin"
    /\ LET load == ~md.results.isArray
           st == IF load THEN [md.stState EXCEPT !.present = TRUE] ELSE md.state
           list0 == IF load
                    THEN (IF md.stResults.present THEN md.stResults.list ELSE <<>>)
                    ELSE md.results.list
           list == PadResults(list0, Len(mig.items))
           startIndex == IF st.status \in {"paused", "running"} THEN Max(0, st.index) ELSE 0
           m1 == [md EXCEPT !.results = [isArray |-> TRUE, list |-> list],
                            !.i = startIndex, !.matched = st.matched, !.pc = "loopTop"]
       IN md' = persistMdMatchStateAndResults(m1,
                    [st EXCEPT !.status = "running", !.total = Len(mig.items),
                               !.index = startIndex, !.error = ""],
                    FALSE)
    /\ MdOthers

\* a scan that takes no entry as processed
NeverProcessed(list, i) == FALSE

\* mdMatchResults[i] && mdMatchResults[i].processed
AlreadyProcessed(list, i) == ResultAt(list, i).processed

\* the head of the loop over the items: the cancel flag is read, then an
\* empty title or a processed entry moves to the next index
MdLoopTop ==
    /\ md.pc = "loopTop"
    /\ LET i == md.i
           it == mig.items[i + 1]
           mpTitle == Trim(it.title)
       IN IF i >= Len(mig.items)
          THEN md' = [md EXCEPT !.pc = "donePersist"]
          ELSE IF md.stCancel
          THEN md' = MdReturn(persistMdMatchStateAndResults(md,
                          [md.state EXCEPT !.status = "paused", !.index = i], TRUE))
          ELSE IF mpTitle = <<>>
          THEN md' = [md EXCEPT !.results.list = SetResultAt(@, i, EmptyTitleResult),
                                !.i = i + 1]
          ELSE IF AlreadyProcessed(md.results.list, i)
          THEN md' = [md EXCEPT !.i = i + 1]
          ELSE md' = [md EXCEPT !.pc = "search", !.attempt = 0, !.waitMs = 0,
                                !.it = [title |-> it.title, mangapark_url |-> it.mangapark_url]]
    /\ MdOthers

\* the hint as sent, without Math.min and Math.max
Wait429Unclamped(hasHint, retryAfterSeconds) ==
    IF hasHint THEN retryAfterSeconds * 1000 ELSE 3000

\* Math.min(15000, Math.max(1000, waitMs))
Wait429Ms(hasHint, retryAfterSeconds) ==
    Min(15000, Max(1000, IF hasHint THEN retryAfterSeconds * 1000 ELSE 3000))

\* the scan of the rows, mdMatchResults[i] and the periodic persist
MdRecord(rows) ==
    LET i == md.i
        mpTitle == Trim(md.it.title)
        scan == ScanRows(rows, mpTitle, ScanStart)
        matched == IF scan.best # "" /\ FracGe(scan.bestScore, MD_MATCH_MIN_SCORE)
                   THEN md.matched + 1 ELSE md.matched
        m1 == [md EXCEPT !.results.list = SetResultAt(@, i, MatchResultOf(md.it, mpTitle, scan)),
                         !.matched = matched, !.pc = "throttle"]
        st == [md.state EXCEPT !.status = "running", !.index = i, !.matched = matched]
    IN IF i % 10 = 0 \/ i = Len(mig.items) - 1
       THEN persistMdMatchStateAndResults(m1, st, TRUE)
       ELSE [m1 EXCEPT !.state = st]

\* one request of mdSearchMangaByTitle and its answer
MdSearchAttempt ==
    /\ md.pc = "search"
    /\ md.attempt < 3
    /\ \/ md' = [MdRecord(MdSearchRows(Trim(md.it.title))) EXCEPT !.attempt = md.attempt + 1]
       \/ \E hasHint \in BOOLEAN, retryAfterSeconds \in {0, 5, 20} :
            md' = [md EXCEPT !.attempt = @ + 1, !.pc = "wait429",
                             !.hint = [has |-> hasHint,
                                       seconds |-> IF hasHint THEN retryAfterSeconds ELSE 0],
                             !.waitMs = Wait429Ms(hasHint, retryAfterSeconds)]
       \/ \E status \in {404, 500} :
            md' = [md EXCEPT !.attempt = @ + 1, !.pc = "catch",
                             !.err = IF status = 404 THEN "MD_HTTP_404" ELSE "MD_HTTP_500"]
    /\ MdOthers

\* the wait after a 429 is over: the next attempt, or the throw after the third
MdWait429 ==
    /\ md.pc = "wait429"
    /\ md' = IF md.attempt < 3
             THEN [md EXCEPT !.pc = "search", !.waitMs = 0, !.hint = NoMatcher.hint]
             ELSE [md EXCEPT !.pc = "catch", !.waitMs = 0, !.hint = NoMatcher.hint,
                             !.err = "MD_HTTP_429"]
    /\ MdOthers

\* setTimeout(MD_THROTTLE_MS) is over
MdThrottle ==
    /\ md.pc = "throttle"
    /\ md' = [md EXCEPT !.pc = "loopTop", !.i = @ + 1]
    /\ MdOthers

\* after the loop
MdDonePersist ==
    /\ md.pc = "donePersist"
    /\ md' = MdReturn(persistMdMatchStateAndResults(md,
                  [md.state EXCEPT !.status = "done", !.index = Len(mig.items),
                                   !.matched = md.matched], TRUE))
    /\ MdOthers

\* the catch block of mdRunAutoMatch
MdCatch ==
    /\ md.pc = "catch"
    /\ md' = MdReturn(persistMdMatchStateAndResults(md,
                  [md.state EXCEPT !.status = "paused", !.error = md.err], TRUE))
    /\ MdOthers

\* mdMatchPauseBtn (enabled while running): mdPauseAutoMatch
MdPause ==
    /\ MdIsRunning
    /\ ~md.stCancel
    /\ md' = [md EXCEPT !.stCancel = TRUE]
    /\ MdOthers


\* the first index from start on whose entry is processed, has a candidate
\* id and a stored score of threshold or more; Len(list) when there is none
RECURSIVE NextTarget(_, _, _)
NextTarget(list, start, threshold) ==
    IF start >= Len(list) THEN Len(list)
    ELSE LET r == list[start + 1]
         IN IF r.processed /\ r.md # "" /\ FracGe(r.score, threshold)
            THEN start
            ELSE NextTarget(list, start + 1, threshold)

\* mdOpenNextBtn (enabled when there are results): mdOpenNextMatch
MdOpenNext ==
    /\ MdHasAny
    /\ LET list == md.results.list
           idx == Max(0, Min(Len(list), md.state.openIndex))
           at == NextTarget(list, idx, MD_MATCH_MIN_SCORE)
       IN /\ at < Len(list)
          /\ md' = persistMdMatchStateAndResults(md, [md.state EXCEPT !.openIndex = at + 1], FALSE)
    /\ md' # md
    /\ MdOthers

NextMd ==
    \/ MdStart
    \/ MdClearCancel
    \/ MdBegin
    \/ MdLoopTop
    \/ MdSearchAttempt
    \/ MdWait429
    \/ MdThrottle
    \/ MdDonePersist
    \/ MdCatch
    \/ MdPause
    \/ MdOpenNext
    \/ MigrateRemove
    \/ MigrateClearAll

SpecMd == InitMd /\ [][NextMd]_vars


\* C23: no search request is sent for an index whose result, stored or in
\* memory, is processed; a run starts at the stored index when the stored
\* status is paused (at 0 otherwise), stores that index with the running
\* status, and reaches a search only at an index without a processed result.
C23_NoRequery ==
    [][/\ (md.pc = "search" /\ md'.attempt = md.attempt + 1) =>
              /\ ~ResultAt(md.stResults.list, md.i).processed
              /\ ~ResultAt(md.results.list, md.i).processed
       /\ (md.pc = "begin" /\ md'.pc = "loopTop") =>
              /\ md'.i = (IF md.stState.status = "paused" THEN md.stState.index ELSE 0)
              /\ md'.stState.status = "running" /\ md'.stState.index = md'.i
       /\ (md.pc = "loopTop" /\ md'.pc = "search") =>
              /\ md'.i = md.i
              /\ ~ResultAt(md.stResults.list, md.i).processed]_vars

\* a run resumed at index 1, whose stored result is processed, has sent its
\* first request, for index 3
C23_Witness ==
    /\ md.pc = "wait429" /\ md.attempt = 1 /\ md.i = 3
    /\ md.stState.status = "running" /\ md.stState.index = 1
    /\ ResultAt(md.stResults.list, 1).processed
    /\ ResultAt(md.stResults.list, 0).processed
    /\ ~ResultAt(md.stResults.list, 3).processed


\* C24: when the driver reads the cancel flag as set before item i, it ends
\* the run in that step with the stored status paused, the stored index i
\* and the stored results equal to all results in memory, and it neither
\* moves to a search nor to a later index.
C24_PauseAtItem ==
    [][(md.pc = "loopTop" /\ md.stCancel /\ md.i < Len(mig.items)) =>
          /\ md'.pc \in {"loopTop", "idle"}
          /\ md'.pc = "loopTop" => md'.i = md.i
          /\ md'.attempt \in {md.attempt, 0}
          /\ md'.pc = "idle" =>
                /\ ~md'.running
                /\ md'.stState.status = "paused"
                /\ md'.stState.index = md.i
                /\ md'.state = md'.stState
                /\ md'.stResults = [present |-> TRUE, list |-> md.results.list]
                /\ md'.results = md.results]_vars

\* a run is paused before item 3, after the search of item 1 that no
\* periodic persist had stored
C24_Witness ==
    /\ md.pc = "idle" /\ ~md.running /\ md.stCancel
    /\ md.stState.status = "paused" /\ md.stState.index = 3 /\ md.stState.error = ""
    /\ Len(mig.items) = 4
    /\ ResultAt(md.stResults.list, 1).processed
    /\ ResultAt(md.stResults.list, 2).set
    /\ ~ResultAt(md.stResults.list, 3).set


\* C25: one item has at most 3 search attempts; the wait after a 429 is the
\* retry hint in ms, raised to 1000 and lowered to 15000 (3000 without a
\* hint); a wait after attempt 1 or 2 leads to the next attempt for the same
\* item, the wait after attempt 3 to the catch block with MD_HTTP_429; the
\* catch block ends the run with the stored status paused, a non-empty
\* stored error and every result in memory stored, so that each result that
\* was processed before the failed search is stored as it was; the failed
\* attempts and their waits change no result, in memory or stored.
C25_RateLimit ==
    [][/\ md'.attempt <= 3
       /\ md'.pc = "wait429" =>
              md'.waitMs = (IF ~md'.hint.has THEN 3000
                            ELSE IF md'.hint.seconds * 1000 < 1000 THEN 1000
                            ELSE IF md'.hint.seconds * 1000 > 15000 THEN 15000
                            ELSE md'.hint.seconds * 1000)
       /\ (md.pc = "wait429" /\ md'.pc # "wait429") =>
              /\ md'.i = md.i /\ md'.attempt = md.attempt
              /\ IF md.attempt < 3
                 THEN md'.pc = "search"
                 ELSE md'.pc = "catch" /\ md'.err = "MD_HTTP_429"
       /\ (md.pc \in {"search", "wait429"} /\ md'.pc \in {"search", "wait429", "catch"}) =>
              /\ md'.results = md.results
              /\ md'.stResults = md.stResults
       /\ (md.pc = "catch" /\ md'.pc # "catch") =>
              /\ md'.pc = "idle" /\ ~md'.running
              /\ md'.stState.status = "paused"
              /\ md'.stState.error = md.err /\ md.err # ""
              /\ md'.stResults = [present |-> TRUE, list |-> md.results.list]
              /\ \A k \in 0..(Len(md.results.list) - 1) :
                    ResultAt(md.results.list, k).processed =>
                        ResultAt(md'.stResults.list, k) = ResultAt(md.results.list, k)]_vars

\* a run has ended on the third 429 of item 3, items 0 and 1 processed
C25_Witness ==
    /\ md.pc = "idle" /\ ~md.running
    /\ md.stState.status = "paused" /\ md.stState.error = "MD_HTTP_429"
    /\ md.stState.index = 1 /\ md.stState.matched = 1
    /\ ResultAt(md.stResults.list, 0).processed
    /\ ResultAt(md.stResults.list, 1).processed
    /\ ~ResultAt(md.stResults.list, 3).processed


\* the processed entries of a results list whose best candidate is not null
\* and whose stored score is MD_MATCH_MIN_SCORE or more
MatchedEntries(list) ==
    {k \in DOMAIN list :
        list[k].processed /\ list[k].md # "" /\ FracGe(list[k].score, MD_MATCH_MIN_SCORE)}

\* C26: whenever storage holds a match state, its matched field is the
\* number of stored results that are processed, have a best candidate and
\* have a stored score of 0.72 or more.
C26_MatchedCount ==
    md.stState.present =>
        md.stState.matched = Cardinality(MatchedEntries(md.stResults.list))


\* C27: every stored result that is processed has an item at its index in
\* the panel's list, and carries the trimmed title and the url of that item.
C27_Aligned ==
    md.stResults.present =>
        \A i \in 0..(Len(md.stResults.list) - 1) :
            ResultAt(md.stResults.list, i).processed =>
                /\ i < Len(mig.items)
                /\ ResultAt(md.stResults.list, i).mpTitle = Trim(mig.items[i + 1].title)
                /\ ResultAt(md.stResults.list, i).mpUrl = mig.items[i + 1].mangapark_url


\* the usable rows of a search answer: an id and attributes
UsableRows(rows) == {k \in DOMAIN rows : rows[k].id # "" /\ rows[k].hasAttr}

\* the highest similarity of a title to the primary and alternate titles of a row
TopScore(mpTitle, row) ==
    LET all == {diceCoefficient(mpTitle, row.title)}
                 \cup {diceCoefficient(mpTitle, row.alts[a]) : a \in DOMAIN row.alts}
    IN CHOOSE s \in all : \A u \in all : FracGe(s, u)

\* the result r records row k of rows as best: no usable row scores higher,
\* every usable row before it scores lower, and the stored score is its
\* score rounded to 3 decimals
RecordsBest(r, mpTitle, rows, k) ==
    /\ r.md = rows[k].id
    /\ r.score = Round3(TopScore(mpTitle, rows[k]))
    /\ \A j \in UsableRows(rows) : FracGe(TopScore(mpTitle, rows[k]), TopScore(mpTitle, rows[j]))
    /\ \A j \in UsableRows(rows) :
          j < k => FracGt(TopScore(mpTitle, rows[k]), TopScore(mpTitle, rows[j]))

\* C28 as claimed: every search answer with a usable row records, as best
\* candidate, the first usable row of the highest score.
C28_BestOfUsable ==
    [][(md.pc = "search" /\ md'.pc = "throttle") =>
          LET mpTitle == Trim(md.it.title)
              rows == MdSearchRows(mpTitle)
              r == ResultAt(md'.results.list, md.i)
          IN UsableRows(rows) # {} =>
                 \E k \in UsableRows(rows) : RecordsBest(r, mpTitle, rows, k)]_vars

\* C28, amended: a search answer with a usable row of a score above 0
\* records, as best candidate, the first usable row of the highest score;
\* when every usable row scores 0, no best candidate is recorded (md null,
\* score 0).  In both cases the result is processed and keeps the usable
\* rows as candidates.
C28_BestCandidate ==
    [][(md.pc = "search" /\ md'.pc = "throttle") =>
          LET mpTitle == Trim(md.it.title)
              rows == MdSearchRows(mpTitle)
              r == ResultAt(md'.results.list, md.i)
              scoring == {k \in UsableRows(rows) : FracGt(TopScore(mpTitle, rows[k]), Frac(0, 1))}
          IN /\ r.processed /\ r.mpTitle = mpTitle
             /\ Len(r.candidates) = Min(5, Cardinality(UsableRows(rows)))
             /\ IF scoring # {}
                THEN \E k \in scoring : RecordsBest(r, mpTitle, rows, k)
                ELSE r.md = "" /\ r.score = Frac(0, 1000)]_vars

\* the result of Berserk is recorded: of the two rows of score 1, the first,
\* which reaches it through an alternate title
C28_Witness ==
    /\ md.pc = "throttle" /\ md.i = 1
    /\ ResultAt(md.results.list, 1).mpTitle = T_Berserk
    /\ ResultAt(md.results.list, 1).md = "md-kd"
    /\ ResultAt(md.results.list, 1).score = Frac(1000, 1000)
    /\ Len(ResultAt(md.results.list, 1).candidates) = 3


(***************************************************************************)
(* Calls of diceCoefficient on pairs of titles: every string of at most    *)
(* MaxTitleLen characters over a letter, a capital and a hyphen, and the   *)
(* titles of tests/migrate_utils.test.js.                                  *)
(***************************************************************************)
MaxTitleLen == 3

T_OnePieceRaw == <<" ", " ", "O", "n", "e", "-", "P", "i", "é", "c", "e", "!", "!", " ">>

TitlePool ==
    UNION {[1..k -> {"a", "B", "-"}] : k \in 0..MaxTitleLen}
        \cup {T_Berserk, T_Berserker, T_OnePiece, T_OnePieceRaw, <<"O", "n", "e">>}

InitSim ==
    /\ exportState = ClearedState
    /\ dataStore = NoPayload
    /\ partialStore = NoPartial
    /\ cancelFlag = FALSE
    /\ now = 0
    /\ rn = [r \in Runners |-> FreshLocals]
    /\ mig = NoPanel
    /\ md = NoMatcher
    /\ \E a \in TitlePool, b \in TitlePool :
         call = [fn |-> "diceCoefficient", a |-> a, b |-> b, done |-> FALSE,
                 score |-> Frac(0, 1), swapped |-> Frac(0, 1)]

\* U.diceCoefficient(a, b), and the call with the arguments swapped
ApplyDice ==
    /\ call.fn = "diceCoefficient" /\ ~call.done
    /\ call' = [call EXCEPT !.done = TRUE,
                            !.score = diceCoefficient(call.a, call.b),
                            !.swapped = diceCoefficient(call.b, call.a)]
    /\ UNCHANGED <<exportState, dataStore, partialStore, cancelFlag, now, rn, mig, md>>

SpecSim == InitSim /\ [][ApplyDice]_vars

\* C29: the similarity of a and b equals that of b and a and lies in [0, 1];
\* it is 1 when both normalize to the same string of 2 or more characters
\* and 0 when one of them normalizes to the empty string; Berserk and
\* Berserker score above 0.6; One Piece scores 1 with itself and less than
\* 1 with One, and "  One-Piéce!! " normalizes to "one piece".
C29_Similarity ==
    call.done =>
        LET na == normalizeForMatch(call.a)
            nb == normalizeForMatch(call.b)
        IN /\ call.score.n * call.swapped.d = call.swapped.n * call.score.d
           /\ call.score.d > 0
           /\ 0 <= call.score.n /\ call.score.n <= call.score.d
           /\ (na = nb /\ Len(na) >= 2) => call.score.n = call.score.d
           /\ (na = <<>> \/ nb = <<>>) => call.score.n = 0
           /\ (call.a = T_Berserk /\ call.b = T_Berserker) => FracGt(call.score, Frac(6, 10))
           /\ (call.a = T_OnePiece /\ call.b = <<"O", "n", "e">>) => FracGt(Frac(1, 1), call.score)
           /\ call.a = T_OnePieceRaw =>
                  na = <<"o", "n", "e", " ", "p", "i", "e", "c", "e">>

\* the call on Berserk and Berserker has returned 12/14
C29_Witness ==
    /\ call.done /\ call.a = T_Berserk /\ call.b = T_Berserker
    /\ call.score = Frac(12, 14)


(***************************************************************************)
(* migrate.js: auto-follow over the results of an auto-match.              *)
(*   md.ack / md.sel   the mdAcknowledgeRisk box and the mdFollowThreshold *)
(*                     option of the panel                                 *)
(*   md.follow         mdFollowRunning, the position of the follow driver, *)
(*                     its settings and targets; ackAtStart and selAtStart *)
(*                     are the box and the option when it started, last is *)
(*                     the follow request it issued last; stopped says the *)
(*                     last auto-follow-all ended on the cancel flag, and  *)
(*                     followedByAll holds the indexes auto-follow-all has *)
(*                     followed since its last complete run                *)
(***************************************************************************)
\* the options of mdFollowThreshold
FollowThresholds == {Frac(65, 100), Frac(72, 100), Frac(8, 10)}

\* settings that take every score as high enough
SafeThresholdLoose(sel) == Frac(0, 1)

\* mdReadFollowSettingsFromUi: a value outside (0, 1) reads as the default
SafeThreshold(sel) ==
    IF FracGt(sel, Frac(0, 1)) /\ FracGt(Frac(1, 1), sel) THEN sel ELSE MD_MATCH_MIN_SCORE

\* the results of an auto-match over MdItems that has processed the first n items
ResultsOfRun(n) ==
    [k \in 1..Len(MdItems) |->
        LET mpTitle == Trim(MdItems[k].title)
        IN IF k > n THEN NoResult
           ELSE IF mpTitle = <<>> THEN EmptyTitleResult
           ELSE MatchResultOf(MdItems[k], mpTitle,
                              ScanRows(MdSearchRows(mpTitle), mpTitle, ScanStart))]

\* the panel after an auto-match that was paused before item n, or is done
InitFollow ==
    /\ exportState = [ClearedState EXCEPT !.status = "done", !.page = 1, !.pages = 1,
                                          !.collected = Len(MdItems), !.total = Len(MdItems)]
    /\ dataStore = [present |-> TRUE, total_items |-> Len(MdItems), items |-> MdItems]
    /\ partialStore = NoPartial
    /\ cancelFlag = FALSE
    /\ now = 0
    /\ rn = [r \in Runners |-> FreshLocals]
    /\ call = NoCall
    /\ mig = [loaded |-> TRUE, hasPayload |-> TRUE, items |-> MdItems]
    /\ \E n \in {2, 3, Len(MdItems)} :
         LET st == [present |-> TRUE,
                    status |-> IF n = Len(MdItems) THEN "done" ELSE "paused",
                    index |-> n, total |-> Len(MdItems),
                    matched |-> Cardinality({k \in 1..n :
                                    /\ ResultsOfRun(n)[k].md # ""
                                    /\ FracGe(ResultsOfRun(n)[k].score, MD_MATCH_MIN_SCORE)}),
                    openIndex |-> 0, error |-> ""]
         IN md = [NoMatcher EXCEPT !.stState = st, !.state = st,
                                   !.stCancel = (n < Len(MdItems)),
                                   !.stResults = [present |-> TRUE, list |-> ResultsOfRun(n)],
                                   !.results = [isArray |-> TRUE, list |-> ResultsOfRun(n)]]

\* the user ticks or unticks mdAcknowledgeRisk
MdToggleAck ==
    /\ md' = [md EXCEPT !.ack = ~@]
    /\ MdOthers

\* the user picks another option of mdFollowThreshold
MdChooseThreshold ==
    /\ \E v \in FollowThresholds : v # md.sel /\ md' = [md EXCEPT !.sel = v]
    /\ MdOthers

\* mdFollowNextBtn / mdFollowAllBtn: the guards, then the settings are read
\* from the panel and persisted
MdFollowStart(kind) ==
    /\ md.ack
    /\ MdHasAny
    /\ ~md.follow.running
    /\ md' = [md EXCEPT !.follow = [running |-> TRUE, pc |-> kind,
                                    threshold |-> SafeThreshold(md.sel),
                                    ackAtStart |-> md.ack, selAtStart |-> md.sel,
                                    targets |-> <<>>, last |-> NoFollow.last,
                                    stopped |-> md.follow.stopped,
                                    followedByAll |-> md.follow.followedByAll]]
    /\ MdOthers

MdFollowNextStart == MdFollowStart("nextFind")

MdFollowAllStart == MdFollowStart("allPrep")

\* mdFollow(id) is called for a target
FollowIssued(f, target) == [f EXCEPT !.last = [id |-> target.id, at |-> target.at]]

\* mdAutoFollowNext after the settings are persisted: the next target from
\* openIndex on is followed; openIndex advances when mdFollow did not throw
MdFollowNext ==
    /\ md.follow.pc = "nextFind"
    /\ LET list == md.results.list
           start == Max(0, Min(Len(list), md.state.openIndex))
           at == NextTarget(list, start, md.follow.threshold)
           stop == [md.follow EXCEPT !.running = FALSE, !.pc = "idle"]
       IN IF at >= Len(list)
          THEN md' = [md EXCEPT !.follow = stop]
          ELSE LET f == FollowIssued(stop, [id |-> list[at + 1].md, at |-> at])
               IN \/ md' = [persistMdMatchStateAndResults(md,
                                [md.state EXCEPT !.openIndex = at + 1], FALSE)
                            EXCEPT !.follow = f]
                  \/ md' = [md EXCEPT !.follow = f]
    /\ MdOthers

\* the targets of mdAutoFollowAll, in index order
RECURSIVE TargetsFrom(_, _, _)
TargetsFrom(list, i, threshold) ==
    IF i >= Len(list) THEN <<>>
    ELSE LET r == list[i + 1]
         IN (IF r.processed /\ r.md # "" /\ FracGe(r.score, threshold)
             THEN << [id |-> r.md, at |-> i] >> ELSE <<>>)
            \o TargetsFrom(list, i + 1, threshold)

\* mdAutoFollowAll: mdSetFollowCancelFlag(false), then the targets
MdFollowAllPrep ==
    /\ md.follow.pc = "allPrep"
    /\ LET targets == TargetsFrom(md.results.list, 0, md.follow.threshold)
       IN md' = [md EXCEPT !.stFollowCancel = FALSE,
                           !.follow = IF targets = <<>>
                                      THEN [@ EXCEPT !.running = FALSE, !.pc = "idle"]
                                      ELSE [@ EXCEPT !.pc = "allLoop", !.targets = targets]]
    /\ MdOthers

\* one turn of the loop over the targets: the cancel flag is read, then
\* mdFollow is called, whether it throws or not
MdFollowAllStep ==
    /\ md.follow.pc = "allLoop"
    /\ md' = IF md.follow.targets = <<>>
             THEN [md EXCEPT !.follow = [@ EXCEPT !.running = FALSE, !.pc = "idle",
                                                  !.stopped = FALSE, !.followedByAll = {}]]
             ELSE IF md.stFollowCancel
             THEN [md EXCEPT !.follow = [@ EXCEPT !.running = FALSE, !.pc = "idle",
                                                  !.targets = <<>>, !.stopped = TRUE]]
             ELSE [md EXCEPT !.follow = [FollowIssued(@, Head(md.follow.targets))
                                         EXCEPT !.targets = Tail(@),
                                                !.followedByAll =
                                                    @ \cup {Head(md.follow.targets).at}]]
    /\ MdOthers

\* mdFollowStopBtn (enabled while an auto-follow runs): mdStopAutoFollow
MdStopFollow ==
    /\ md.follow.running
    /\ ~md.stFollowCancel
    /\ md' = [md EXCEPT !.stFollowCancel = TRUE]
    /\ MdOthers

NextFollow ==
    \/ MdToggleAck
    \/ MdChooseThreshold
    \/ MdFollowNextStart
    \/ MdFollowAllStart
    \/ MdFollowNext
    \/ MdFollowAllPrep
    \/ MdFollowAllStep
    \/ MdStopFollow
    \/ MdOpenNext

SpecFollow == InitFollow /\ [][NextFollow]_vars

\* C30: an auto-follow starts only while the risk box is ticked, with the
\* threshold option of that moment; every follow request it issues is for a
\* result that is processed, whose candidate id is not null and is the id
\* followed, and whose stored score is that threshold or more.
C30_FollowGuard ==
    [][/\ (~md.follow.running /\ md'.follow.running) =>
              /\ md.ack
              /\ md'.follow.ackAtStart /\ md'.follow.selAtStart = md.sel
              /\ md'.follow.last.id = ""
       /\ (md'.follow.last # md.follow.last /\ md'.follow.last.id # "") =>
              LET r == ResultAt(md.results.list, md'.follow.last.at)
              IN /\ md.follow.running /\ md.follow.ackAtStart
                 /\ r.processed
                 /\ r.md # "" /\ r.md = md'.follow.last.id
                 /\ FracGe(r.score, md.follow.selAtStart)]_vars

\* an auto-follow-all started at the option 0.65 has followed the candidate
\* of score 0.667 at index 3, after the box was unticked
C30_Witness ==
    /\ md.follow.running /\ md.follow.pc = "allLoop"
    /\ md.follow.last = [id |-> "md-abce", at |-> 3]
    /\ md.follow.selAtStart = Frac(65, 100)
    /\ ~md.ack
    /\ ResultAt(md.results.list, 3).score = Frac(667, 1000)


\* C31: when an auto-follow-all runs again after one that was stopped, it
\* follows no entry that auto-follow-all has followed already.
C31_FollowedOnce ==
    [][(md.follow.pc = "allLoop" /\ md.follow.stopped
            /\ md'.follow.last # md.follow.last /\ md'.follow.last.id # "") =>
          md'.follow.last.at \notin md.follow.followedByAll]_vars


(***************************************************************************)
(* CSV escaping (migrate_utils.js and popup.js).  A value is null or a     *)
(* string, a string is a sequence of one-character strings.                *)
(***************************************************************************)
MaxValueLen == 3

QUOTE == "\""

\* String(value ?? "")
StringOrEmpty(value) == IF value.isNull THEN <<>> ELSE value.s

\* /[",\n]/.test(s)
NeedsQuoting(s) == \E k \in 1..Len(s) : s[k] \in {QUOTE, ",", "\n"}

\* s.replace(/"/g, '""')
RECURSIVE DoubleQuotes(_)
DoubleQuotes(s) ==
    IF s = <<>> THEN <<>>
    ELSE (IF Head(s) = QUOTE THEN <<QUOTE, QUOTE>> ELSE <<Head(s)>>) \o DoubleQuotes(Tail(s))

csvEscapeNoDoubling(value) ==
    LET s == StringOrEmpty(value)
    IN IF NeedsQuoting(s) THEN <<QUOTE>> \o s \o <<QUOTE>> ELSE s

\* csvEscape of migrate_utils.js
csvEscape(value) ==
    LET s == StringOrEmpty(value)
    IN IF NeedsQuoting(s) THEN <<QUOTE>> \o DoubleQuotes(s) \o <<QUOTE>> ELSE s

\* csvEscape of popup.js
popupCsvEscape(value) ==
    LET s == StringOrEmpty(value)
    IN IF NeedsQuoting(s) THEN <<QUOTE>> \o DoubleQuotes(s) \o <<QUOTE>> ELSE s

\* one line of makeCsv: the escaped fields joined by ","
csvLine(fields) ==
    LET RECURSIVE Join(_)
        Join(fs) == IF Len(fs) = 1 THEN csvEscape(fs[1])
                    ELSE csvEscape(fs[1]) \o <<",">> \o Join(Tail(fs))
    IN Join(fields)

\* a CSV reader: a quote at the start of a field opens a quoted field, in
\* which a doubled quote is a quote and a single one closes the field; out
\* of quotes a comma ends the field and a newline ends the record
csvParse(text) ==
    LET RECURSIVE P(_, _, _, _, _)
        P(i, inQuotes, cur, rec, recs) ==
            IF i > Len(text) THEN Append(recs, Append(rec, cur))
            ELSE IF inQuotes
            THEN IF text[i] # QUOTE THEN P(i + 1, TRUE, Append(cur, text[i]), rec, recs)
                 ELSE IF i < Len(text) /\ text[i + 1] = QUOTE
                      THEN P(i + 2, TRUE, Append(cur, QUOTE), rec, recs)
                      ELSE P(i + 1, FALSE, cur, rec, recs)
            ELSE IF text[i] = QUOTE /\ cur = <<>> THEN P(i + 1, TRUE, cur, rec, recs)
            ELSE IF text[i] = "," THEN P(i + 1, FALSE, <<>>, Append(rec, cur), recs)
            ELSE IF text[i] = "\n" THEN P(i + 1, FALSE, <<>>, <<>>, Append(recs, Append(rec, cur)))
            ELSE P(i + 1, FALSE, Append(cur, text[i]), rec, recs)
    IN P(1, FALSE, <<>>, <<>>, <<>>)

\* the title of testCsv: A "quote", and comma
T_QuoteAndComma ==
    <<"A", " ", QUOTE, "q", "u", "o", "t", "e", QUOTE, ",", " ", "a", "n", "d", " ",
      "c", "o", "m", "m", "a">>

CsvValues ==
    {[isNull |-> TRUE, s |-> <<>>]}
        \cup {[isNull |-> FALSE, s |-> s] :
                s \in UNION {[1..k -> {"a", ",", QUOTE, "\n", "\r"}] : k \in 0..MaxValueLen}
                          \cup {T_QuoteAndComma}}

CsvNeighbours ==
    {[isNull |-> FALSE, s |-> s] : s \in {<<>>, <<"a">>, <<",">>, <<QUOTE>>, <<"\n">>}}

InitCsv ==
    /\ exportState = ClearedState
    /\ dataStore = NoPayload
    /\ partialStore = NoPartial
    /\ cancelFlag = FALSE
    /\ now = 0
    /\ rn = [r \in Runners |-> FreshLocals]
    /\ mig = NoPanel
    /\ md = NoMatcher
    /\ \E a \in CsvValues, b \in CsvNeighbours :
         call = [fn |-> "csvEscape", a |-> a, b |-> b, done |-> FALSE,
                 out |-> <<>>, popupOut |-> <<>>, line |-> <<>>]

\* U.csvEscape(a), the popup's csvEscape(a), and the makeCsv line of a and b
ApplyCsvEscape ==
    /\ call.fn = "csvEscape" /\ ~call.done
    /\ call' = [call EXCEPT !.done = TRUE,
                            !.out = csvEscape(call.a),
                            !.popupOut = popupCsvEscape(call.a),
                            !.line = csvLine(<<call.a, call.b>>)]
    /\ UNCHANGED <<exportState, dataStore, partialStore, cancelFlag, now, rn, mig, md>>

SpecCsv == InitCsv /\ [][ApplyCsvEscape]_vars

\* C32: csvEscape puts a value between double quotes exactly when it holds
\* a comma, a double quote or a newline, and then doubles every quote in
\* it; reading the escaped field back, alone or in a line, gives the value;
\* the popup's csvEscape returns the same field; the title of testCsv
\* becomes "A ""quote"", and comma".
C32_CsvEscape ==
    call.done =>
        LET s == StringOrEmpty(call.a)
            quotes(x) == Cardinality({k \in 1..Len(x) : x[k] = QUOTE})
            special == \E k \in 1..Len(s) : s[k] = "," \/ s[k] = QUOTE \/ s[k] = "\n"
            wrapped == /\ Len(call.out) = Len(s) + quotes(s) + 2
                       /\ call.out[1] = QUOTE /\ call.out[Len(call.out)] = QUOTE
                       /\ quotes(call.out) = 2 * quotes(s) + 2
        IN /\ special => wrapped
           /\ ~special => call.out = s
           /\ csvParse(call.out) = << <<s>> >>
           /\ csvParse(call.line) = << <<s, StringOrEmpty(call.b)>> >>
           /\ call.popupOut = call.out
           /\ s = T_QuoteAndComma =>
                  call.out = <<QUOTE, "A", " ", QUOTE, QUOTE, "q", "u", "o", "t", "e", QUOTE,
                               QUOTE, ",", " ", "a", "n", "d", " ", "c", "o", "m", "m", "a",
                               QUOTE>>

\* the call on a value that holds a quote, a comma and a newline has returned
C32_Witness ==
    /\ call.fn = "csvEscape" /\ call.done
    /\ ~call.a.isNull
    /\ call.a.s = <<QUOTE, ",", "\n">>
    /\ call.out = <<QUOTE, QUOTE, QUOTE, ",", "\n", QUOTE>>


\* the identities of the rows of pages 1..n in first-seen order: what a run
\* that is never interrupted collects
FirstSeenIdentities(n) ==
    LET RECURSIVE RowIds(_)
        RowIds(q) ==
            IF q <= 0 THEN <<>>
            ELSE RowIds(q - 1)
                   \o [i \in 1..Len(ServerRows(q)) |-> Identity(mapItemToDataset(ServerRows(q)[i]))]
        RECURSIVE Firsts(_, _)
        Firsts(ids, acc) ==
            IF ids = <<>> THEN acc
            ELSE Firsts(Tail(ids),
                        IF Head(ids) = "" \/ (\E k \in 1..Len(acc) : acc[k] = Head(ids))
                        THEN acc ELSE Append(acc, Head(ids)))
    IN Firsts(RowIds(n), <<>>)

\* C33: the payload written by a run that resumed from a snapshot holds the
\* same identities in the same order as the payload of a run that was never
\* interrupted: first-seen order over pages 1, 2, ..., pages.
C33_SameOrder ==
    [][\A r \in Runners :
         (rn[r].pc = "finalWrite" /\ rn'[r].pc = "doneState" /\ rn[r].isResume) =>
            /\ dataStore'.present
            /\ [i \in 1..Len(dataStore'.items) |-> Identity(dataStore'.items[i])]
                  = FirstSeenIdentities(Max(NumPages, rn[r].p))]_vars

\* a run resumed from the snapshot of page 2 has written its payload, whose
\* third item is the one of page 2 without comic id
C33_Witness ==
    \E r \in Runners :
        /\ rn[r].pc = "doneState" /\ rn[r].isResume
        /\ rn[r].partial.present /\ rn[r].partial.page = 2
        /\ dataStore.present
        /\ Len(dataStore.items) = 5
        /\ dataStore.items[3].comic_id = ""


\* the continuations of a closure: every step of a run but its injection
Continuation(r) ==
    \/ ReadState(r)
    \/ WaitRead(r)
    \/ WaitLoop(r)
    \/ ReadPartial(r)
    \/ Start(r)
    \/ ReadPartial2(r)
    \/ ResumeUnavailable(r)
    \/ InitState(r)
    \/ LoopTop(r)
    \/ AttemptStart(r)
    \/ Receive(r)
    \/ ReceiveAborted(r)
    \/ PauseSnapshot(r)
    \/ PauseState(r)
    \/ ErrorState(r)
    \/ PageState(r)
    \/ PeriodicSnapshot(r)
    \/ FinalWrite(r)
    \/ DoneState(r)
    \/ Catch(r)

\* the single-closure model in which the event loop runs every ready
\* continuation, a pending fetch settles (answer, failure or timeout) and
\* the clock advances; the user's actions are under no obligation
SpecFair == Init /\ [][Next]_vars /\ WF_vars(Tick) /\ \A r \in Solo : WF_vars(Continuation(r))

\* C34: once the cancel flag is set while a closure is in its page loop, the
\* closure leaves the loop and its run ends; a page request is issued only
\* in a step at which the closure has not been told of a cancellation and
\* reads the flag as unset, so that no request follows the observation.
C34_CancelStops ==
    /\ \A r \in Solo : (rn[r].pc \in LoopPcs /\ cancelFlag) ~> (rn[r].pc = "off")
    /\ [][\A r \in Solo :
            (rn[r].pc # "inflight" /\ rn'[r].pc = "inflight") =>
                ~rn[r].cancelRequested /\ ~cancelFlag]_vars

\* the cancellation arrived while the request of page 2 was in flight and
\* aborted it; the run has ended without another request
C34_Witness ==
    \E r \in Solo :
        /\ rn[r].pc = "off"
        /\ rn[r].cancelRequested
        /\ rn[r].observed = "abort"
        /\ cancelFlag


StoreKeys == {"mp_export_state", "mp_export_partial"}

StoreValues == {"v1", "v2"}

NoStore ==
    [fn |-> "storage", sync |-> [k \in StoreKeys |-> "none"],
     local |-> [k \in StoreKeys |-> "none"], mode |-> "none",
     written |-> [k \in StoreKeys |-> "none"],
     op |-> "none", key |-> "", got |-> "none", readErr |-> FALSE]

\* getFromStorage([k]) of the runner, data[k]
getFromStorage(c, k, syncErr, localErr) ==
    LET mode == IF c.mode = "local" /\ ~localErr THEN "local" ELSE "sync"
    IN IF mode = "local"
       THEN IF ~localErr THEN c.local[k]
            ELSE IF ~syncErr THEN c.sync[k] ELSE "none"
       ELSE IF ~syncErr THEN c.sync[k]
            ELSE IF ~localErr THEN c.local[k] ELSE "none"

\* setToStorage({[k]: v}) of the runner: the store after it
setToStorage(c, k, v, syncFails, localFails) ==
    LET mode == IF c.mode = "local" THEN "local" ELSE "sync"
        toSync == [c EXCEPT !.sync[k] = v, !.written[k] = v]
        toLocal == [c EXCEPT !.local[k] = v, !.written[k] = v]
        failed == [c EXCEPT !.written[k] = "none"]
    IN IF mode = "local"
       THEN IF ~localFails THEN toLocal ELSE IF ~syncFails THEN toSync ELSE failed
       ELSE IF ~syncFails THEN toSync ELSE IF ~localFails THEN toLocal ELSE failed

\* setToStorage({[k]: v}) of popup.js: the store after it
popupSetToStorage(c, k, v, syncFails, localFails) ==
    LET c0 == [c EXCEPT !.written[k] = "none"]
    IN IF c.mode = "local"
       THEN IF ~localFails
            THEN [c0 EXCEPT !.local[k] = v, !.mode = "local",
                            !.sync[k] = IF syncFails THEN @ ELSE v]
            ELSE IF ~syncFails THEN [c0 EXCEPT !.sync[k] = v] ELSE c0
       ELSE IF ~syncFails
            THEN [c0 EXCEPT !.sync[k] = v, !.mode = IF localFails THEN @ ELSE "sync"]
            ELSE IF ~localFails THEN [c0 EXCEPT !.local[k] = v, !.mode = "local"] ELSE c0

InitStore ==
    /\ exportState = ClearedState
    /\ dataStore = NoPayload
    /\ partialStore = NoPartial
    /\ cancelFlag = FALSE
    /\ now = 0
    /\ rn = [r \in Runners |-> FreshLocals]
    /\ mig = NoPanel
    /\ md = NoMatcher
    /\ call = NoStore

StoreOthers == UNCHANGED <<exportState, dataStore, partialStore, cancelFlag, now, rn, mig, md>>

\* the runner writes v under k (updateState, persistPartialSnapshot, ...)
RunnerSet ==
    /\ call.fn = "storage"
    /\ \E k \in StoreKeys, v \in StoreValues, syncFails \in BOOLEAN, localFails \in BOOLEAN :
         call' = [setToStorage(call, k, v, syncFails, localFails)
                    EXCEPT !.op = "set", !.key = k, !.got = "none", !.readErr = FALSE]
    /\ StoreOthers

\* the runner reads k (runExport, readPartialPayload, ...)
RunnerGet ==
    /\ call.fn = "storage"
    /\ \E k \in StoreKeys, syncErr \in BOOLEAN, localErr \in BOOLEAN :
         call' = [call EXCEPT !.op = "get", !.key = k,
                              !.got = getFromStorage(call, k, syncErr, localErr),
                              !.readErr = syncErr \/ localErr]
    /\ StoreOthers

\* the popup writes v under k (cancel, clear, settings)
PopupSet ==
    /\ call.fn = "storage"
    /\ \E k \in StoreKeys, v \in StoreValues, syncFails \in BOOLEAN, localFails \in BOOLEAN :
         call' = [popupSetToStorage(call, k, v, syncFails, localFails)
                    EXCEPT !.op = "popupSet", !.key = k, !.got = "none", !.readErr = FALSE]
    /\ StoreOthers

NextStore == RunnerSet \/ RunnerGet \/ PopupSet

SpecStore == InitStore /\ [][NextStore]_vars

\* C36: when the runner's getFromStorage reads, without a read error, a key
\* whose last write was a setToStorage of the runner that stored the value
\* (in the sync area or, after a failed sync write, in the local area), it
\* returns the value written.
C36_ReadsWhatItWrote ==
    (call.fn = "storage" /\ call.op = "get" /\ ~call.readErr
        /\ call.written[call.key] # "none") =>
       call.got = call.written[call.key]


(***************************************************************************)
(* The end of an auto-match run, with persistMdMatchStateAndResults in its *)
(* three parts: the state to store is built from the caller's argument,    *)
(* setToStorage is awaited (the write reaches the storage), then           *)
(* mdMatchState is assigned.  Between the parts the UI handlers run.       *)
(* call holds, for each caller, the call that has not returned yet (pend)  *)
(* and whether mdRunAutoMatch has returned from its last persist.          *)
(***************************************************************************)
PersistCallers == {"match", "open", "follow"}

NoPending == [pc |-> "idle", st |-> NoMdState, withResults |-> FALSE]

\* persistMdMatchStateAndResults(st, results) is called: st is copied
PersistIssued(c, a, st, withResults) ==
    [c EXCEPT !.pend[a] = [pc |-> "issued", st |-> [st EXCEPT !.present = TRUE],
                           withResults |-> withResults]]

\* the matcher when the loop of mdRunAutoMatch has handled its last item
LoopEndMatcher ==
    LET st == [present |-> TRUE, status |-> "running", index |-> Len(MdItems) - 1,
               total |-> Len(MdItems), matched |-> 1, openIndex |-> 0, error |-> ""]
        res == ResultsOfRun(Len(MdItems))
    IN [NoMatcher EXCEPT !.pc = "donePersist", !.running = TRUE, !.i = Len(MdItems),
                         !.matched = 1, !.attempt = 1,
                         !.it = [title |-> MdItems[Len(MdItems)].title,
                                 mangapark_url |-> MdItems[Len(MdItems)].mangapark_url],
                         !.stState = st, !.state = st,
                         !.stResults = [present |-> TRUE, list |-> res],
                         !.results = [isArray |-> TRUE, list |-> res]]

InitPersist ==
    /\ exportState = [ClearedState EXCEPT !.status = "done", !.page = 1, !.pages = 1,
                                          !.collected = Len(MdItems), !.total = Len(MdItems)]
    /\ dataStore = [present |-> TRUE, total_items |-> Len(MdItems), items |-> MdItems]
    /\ partialStore = NoPartial
    /\ cancelFlag = FALSE
    /\ now = 0
    /\ rn = [r \in Runners |-> FreshLocals]
    /\ call = [fn |-> "persist", pend |-> [a \in PersistCallers |-> NoPending],
               completed |-> FALSE]
    /\ mig = [loaded |-> TRUE, hasPayload |-> TRUE, items |-> MdItems]
    /\ md = LoopEndMatcher

PersistOthers == UNCHANGED <<exportState, dataStore, partialStore, cancelFlag, now, rn, mig>>

\* mdRunAutoMatch after its loop: the last persist is called with status
\* done
MdDonePersistIssue ==
    /\ md.pc = "donePersist"
    /\ call.pend["match"].pc = "idle"
    /\ call' = PersistIssued(call, "match",
                   [md.state EXCEPT !.status = "done", !.index = Len(mig.items),
                                    !.matched = md.matched], TRUE)
    /\ md' = [md EXCEPT !.pc = "donePersistWait"]
    /\ PersistOthers

\* mdOpenNextMatch: the target is opened and the cursor is persisted from
\* the copy of the state in memory
MdOpenNextIssue ==
    /\ MdHasAny
    /\ call.pend["open"].pc = "idle"
    /\ LET list == md.results.list
           idx == Max(0, Min(Len(list), md.state.openIndex))
           at == NextTarget(list, idx, MD_MATCH_MIN_SCORE)
       IN /\ at < Len(list)
          /\ call' = PersistIssued(call, "open", [md.state EXCEPT !.openIndex = at + 1], FALSE)
    /\ UNCHANGED md
    /\ PersistOthers

\* mdAutoFollowNext from its search of the target on: mdFollow is awaited,
\* then the cursor is persisted from the copy of the state in memory; a
\* failed mdFollow ends the handler
MdFollowNextIssue ==
    /\ md.follow.pc = "nextFind"
    /\ call.pend["follow"].pc = "idle"
    /\ LET list == md.results.list
           start == Max(0, Min(Len(list), md.state.openIndex))
           at == NextTarget(list, start, md.follow.threshold)
           stop == [md.follow EXCEPT !.running = FALSE, !.pc = "idle"]
       IN IF at >= Len(list)
          THEN md' = [md EXCEPT !.follow = stop] /\ UNCHANGED call
          ELSE LET target == [id |-> list[at + 1].md, at |-> at]
               IN \/ /\ md' = [md EXCEPT !.follow = [FollowIssued(@, target)
                                                     EXCEPT !.pc = "nextPersist"]]
                     /\ call' = PersistIssued(call, "follow",
                                    [md.state EXCEPT !.openIndex = at + 1], FALSE)
                  \/ /\ md' = [md EXCEPT !.follow = FollowIssued(stop, target)]
                     /\ UNCHANGED call
    /\ PersistOthers

\* setToStorage of a pending persist takes effect
PersistWrite(a) ==
    /\ call.pend[a].pc = "issued"
    /\ md' = [md EXCEPT !.stState = call.pend[a].st,
                        !.stResults = IF call.pend[a].withResults
                                      THEN [present |-> TRUE, list |-> md.results.list]
                                      ELSE @]
    /\ call' = [call EXCEPT !.pend[a].pc = "written"]
    /\ PersistOthers

\* the await of setToStorage returns: mdMatchState = st, and the caller
\* goes on to its end
PersistReturn(a) ==
    /\ call.pend[a].pc = "written"
    /\ LET m == [md EXCEPT !.state = call.pend[a].st]
       IN md' = IF a = "match" THEN MdReturn(m)
                ELSE IF a = "follow"
                THEN [m EXCEPT !.follow = [@ EXCEPT !.running = FALSE, !.pc = "idle"]]
                ELSE m
    /\ call' = [call EXCEPT !.pend[a] = NoPending,
                            !.completed = @ \/ a = "match"]
    /\ PersistOthers

NextPersist ==
    \/ MdDonePersistIssue
    \/ MdOpenNextIssue
    \/ MdFollowNextIssue
    \/ \E a \in PersistCallers : PersistWrite(a)
    \/ \E a \in PersistCallers : PersistReturn(a)
    \/ MdToggleAck
    \/ MdChooseThreshold
    \/ MdFollowNextStart

SpecPersist == InitPersist /\ [][NextPersist]_vars

\* C37: once mdRunAutoMatch has returned from the persist that ends its
\* loop, the stored match state has status done, whatever open-next-match
\* and auto-follow-next have written meanwhile.
C37_StaysDone ==
    (call.fn = "persist" /\ call.completed) => md.stState.status = "done"


\* C38: once the export is cleared (state idle with page 0 and collected 0,
\* no payload, no snapshot) it stays cleared as long as the only run under
\* way, if any, is one that was already under way when clear was pressed.
C38_StaysCleared ==
    [][(/\ exportState = ClearedState
        /\ ~dataStore.present
        /\ ~partialStore.present
        /\ \A r \in Solo : rn[r].pc # "off" => rn[r].clearedUnder) =>
          /\ exportState' = ClearedState
          /\ ~dataStore'.present
          /\ ~partialStore'.present]_vars


(***************************************************************************)
(* The background follow batch of service_worker.js.  call holds           *)
(*   queue, state, cancel   the three values in the local storage area     *)
(*   alarm       md_follow_batch_alarm is scheduled                        *)
(*   tick        the locals of the mdBatchTick under way (pc "idle": none) *)
(*   ids         history: how many ids the started batch had (1..ids)      *)
(*   attempted   history: the ids mdFollowManga was called for             *)
(***************************************************************************)
MaxBatch == 17

chunkSize == 15

NoTick == [pc |-> "idle", queue |-> <<>>, toProcess |-> <<>>, total |-> 0, done |-> 0]

NoBatch ==
    [fn |-> "batch", queue |-> <<>>,
     state |-> [status |-> "idle", total |-> 0, done |-> 0, lastError |-> ""],
     cancel |-> FALSE, alarm |-> FALSE, tick |-> NoTick, ids |-> 0, attempted |-> {}]

InitBatch ==
    /\ exportState = ClearedState
    /\ dataStore = NoPayload
    /\ partialStore = NoPartial
    /\ cancelFlag = FALSE
    /\ now = 0
    /\ rn = [r \in Runners |-> FreshLocals]
    /\ mig = NoPanel
    /\ md = NoMatcher
    /\ call = NoBatch

BatchOthers == UNCHANGED <<exportState, dataStore, partialStore, cancelFlag, now, rn, mig, md>>

\* message MD_FOLLOW_BATCH_START with n ids, while no batch is running
BatchStart ==
    /\ call.fn = "batch"
    /\ call.tick.pc = "idle"
    /\ call.state.status # "running"
    /\ \E n \in 1..MaxBatch :
         call' = [call EXCEPT !.queue = [k \in 1..n |-> k],
                              !.cancel = FALSE,
                              !.state = [status |-> "running", total |-> n, done |-> 0,
                                         lastError |-> ""],
                              !.alarm = TRUE,
                              !.ids = n, !.attempted = {}]
    /\ BatchOthers

\* message MD_FOLLOW_BATCH_STOP
BatchStop ==
    /\ call.fn = "batch"
    /\ call.state.status = "running"
    /\ ~call.cancel
    /\ call' = [call EXCEPT !.cancel = TRUE, !.state.status = "stopped"]
    /\ BatchOthers

\* the alarm fires: mdBatchTick up to its loop
BatchTickBegin ==
    /\ call.fn = "batch"
    /\ call.alarm
    /\ call.tick.pc = "idle"
    /\ call' =
         IF call.cancel
         THEN [call EXCEPT !.state.status = "stopped", !.alarm = FALSE]
         ELSE IF call.state.status # "running"
         THEN [call EXCEPT !.alarm = FALSE]
         ELSE [call EXCEPT !.alarm = FALSE,
                           !.tick = [pc |-> "loop",
                                     queue |-> SubSeq(call.queue, chunkSize + 1, Len(call.queue)),
                                     toProcess |-> SubSeq(call.queue, 1,
                                                          Min(chunkSize, Len(call.queue))),
                                     total |-> call.state.total,
                                     done |-> call.state.done]]
    /\ BatchOthers

\* the loop of mdBatchTick sees the cancel flag
BatchOnCancel(c) ==
    [c EXCEPT !.queue = c.tick.queue,
              !.state = [@ EXCEPT !.status = "stopped", !.total = c.tick.total,
                                  !.done = c.tick.done],
              !.alarm = FALSE,
              !.tick = NoTick]

\* one turn of the loop over the chunk: mdFollowManga succeeds or throws
BatchTickStep ==
    /\ call.fn = "batch"
    /\ call.tick.pc = "loop"
    /\ call.tick.toProcess # <<>>
    /\ IF call.cancel
       THEN call' = BatchOnCancel(call)
       ELSE \E failed \in BOOLEAN :
              call' = [call EXCEPT
                         !.attempted = @ \cup {Head(call.tick.toProcess)},
                         !.tick = [@ EXCEPT !.toProcess = Tail(@), !.done = @ + 1],
                         !.state = [@ EXCEPT !.total = call.tick.total,
                                             !.done = call.tick.done + 1,
                                             !.lastError = IF failed THEN "error" ELSE @]]
    /\ BatchOthers

\* after the loop: the rest of the queue is stored, and the batch is done
\* or the alarm is set again
BatchTickEnd ==
    /\ call.fn = "batch"
    /\ call.tick.pc = "loop"
    /\ call.tick.toProcess = <<>>
    /\ call' = IF call.tick.queue = <<>>
               THEN [call EXCEPT !.queue = <<>>,
                                 !.state = [@ EXCEPT !.status = "done",
                                                     !.total = call.tick.total,
                                                     !.done = call.tick.done],
                                 !.alarm = FALSE, !.tick = NoTick]
               ELSE [call EXCEPT !.queue = call.tick.queue, !.alarm = TRUE, !.tick = NoTick]
    /\ BatchOthers

NextBatch ==
    \/ BatchStart
    \/ BatchStop
    \/ BatchTickBegin
    \/ BatchTickStep
    \/ BatchTickEnd

SpecBatch == InitBatch /\ [][NextBatch]_vars

\* C39: whenever no mdBatchTick is under way, every id of the started batch
\* has had a follow attempt or is in the stored queue, and the stored done
\* plus the length of the stored queue is the stored total.
C39_NothingLost ==
    (call.fn = "batch" /\ call.tick.pc = "idle") =>
        /\ call.state.done + Len(call.queue) = call.state.total
        /\ \A id \in 1..call.ids :
              id \in call.attempted \/ (\E k \in 1..Len(call.queue) : call.queue[k] = id)


(***************************************************************************)
(* The image patcher (content script).  A URL string is a record           *)
(*   kind    "null" (no attribute), "empty", "data" (a forbidden scheme),  *)
(*           "abs" (scheme://host/path) or "rel" (/path)                   *)
(*   scheme, host   of an absolute URL; the host as written, a sequence of *)
(*           characters                                                    *)
(*   path    the path as its segments, query: a query string follows       *)
(* Two records are equal exactly when the strings are.  call holds the     *)
(* page: its location, one img element, the mutation records not yet       *)
(* delivered to the observer with who caused each, and the last pass.      *)
(***************************************************************************)
MaxPageWrites == 2

NullUrl == [kind |-> "null", scheme |-> "", host |-> <<>>, path |-> <<>>, query |-> FALSE]

AbsUrl(scheme, host, path, query) ==
    [kind |-> "abs", scheme |-> scheme, host |-> host, path |-> path, query |-> query]

\* the host names of the pages and of the images
H_Site == <<"m", "p", ".", "n", "e", "t">>
H_S05 == <<"s", "0", "5", ".", "x">>
H_S10Upper == <<"S", "1", "0", ".", "x">>
H_S05Upper == <<"S", "0", "5", ".", "x">>
H_S11 == <<"s", "1", "1", ".", "x">>
H_S1 == <<"s", "1", ".", "x">>
H_Xs05 == <<"x", "s", "0", "5", ".", "x">>

\* url.hostname: the host in lower case
HostLower(h) == [k \in 1..Len(h) |-> IF h[k] = "S" THEN "s" ELSE h[k]]

\* TARGET_HOST_REGEX = /^s(?:0\d|10)\./i
TARGET_HOST_REGEX(h) ==
    /\ Len(h) >= 4
    /\ h[1] \in {"s", "S"}
    /\ \/ h[2] = "0" /\ h[3] \in {"0", "1", "2", "3", "4", "5", "6", "7", "8", "9"}
       \/ h[2] = "1" /\ h[3] = "0"
    /\ h[4] = "."

\* new URL(raw, window.location.href): scheme, hostname and pathname
ResolveUrl(raw, loc) ==
    IF raw.kind = "abs"
    THEN [scheme |-> raw.scheme, hostname |-> HostLower(raw.host), pathname |-> raw.path]
    ELSE [scheme |-> loc.protocol, hostname |-> loc.host, pathname |-> raw.path]

\* mutant of getFixedUrl: the comparison of newUrl with raw is dropped
getFixedUrlAlways(raw, loc) ==
    IF raw.kind \in {"null", "empty", "data"} THEN NullUrl
    ELSE LET url == ResolveUrl(raw, loc)
         IN IF ~TARGET_HOST_REGEX(url.hostname) THEN NullUrl
            ELSE IF ~(Len(url.pathname) >= 2 /\ url.pathname[1] = "media") THEN NullUrl
            ELSE AbsUrl(loc.protocol, loc.host, url.pathname, FALSE)

\* getFixedUrl(urlString): NullUrl stands for null
getFixedUrl(raw, loc) ==
    IF raw.kind \in {"null", "empty", "data"} THEN NullUrl
    ELSE LET url == ResolveUrl(raw, loc)
             newUrl == AbsUrl(loc.protocol, loc.host, url.pathname, FALSE)
         IN IF ~TARGET_HOST_REGEX(url.hostname) THEN NullUrl
            ELSE IF ~(Len(url.pathname) >= 2 /\ url.pathname[1] = "media") THEN NullUrl
            ELSE IF newUrl = raw THEN NullUrl
            ELSE newUrl

\* parseAndFixSrcset on the URL tokens of a srcset (the descriptors are
\* carried over as they are)
parseAndFixSrcset(srcset, loc) ==
    LET fixedAt(k) == getFixedUrl(srcset[k], loc)
    IN [changed |-> \E k \in 1..Len(srcset) : fixedAt(k) # NullUrl,
        value |-> [k \in 1..Len(srcset) |->
                     IF fixedAt(k) # NullUrl THEN fixedAt(k) ELSE srcset[k]],
        patchOps |-> Cardinality({k \in 1..Len(srcset) : fixedAt(k) # NullUrl})]

\* img.src: the src attribute resolved against the page
SrcProperty(img, loc) ==
    IF img.src.kind \in {"abs", "rel"}
    THEN LET url == ResolveUrl(img.src, loc)
         IN AbsUrl(url.scheme, url.hostname, url.pathname, img.src.query)
    ELSE IF img.src.kind = "data" THEN img.src
    ELSE [NullUrl EXCEPT !.kind = "empty"]

\* patchImage(img): the element after it, the attributes written
patchImage(img, loc) ==
    LET fixedSrc == IF getFixedUrl(img.src, loc) # NullUrl THEN getFixedUrl(img.src, loc)
                    ELSE getFixedUrl(SrcProperty(img, loc), loc)
        res == parseAndFixSrcset(img.srcset, loc)
        fixedLazy == getFixedUrl(img.lazy, loc)
    IN [img |-> [src |-> IF fixedSrc # NullUrl THEN fixedSrc ELSE img.src,
                 srcset |-> IF res.changed THEN res.value ELSE img.srcset,
                 lazy |-> IF fixedLazy # NullUrl THEN fixedLazy ELSE img.lazy],
        written |-> (IF fixedSrc # NullUrl THEN <<"src">> ELSE <<>>)
                      \o (IF res.changed THEN <<"srcset">> ELSE <<>>)
                      \o (IF fixedLazy # NullUrl THEN <<"data-src">> ELSE <<>>),
        patchOps |-> (IF fixedSrc # NullUrl THEN 1 ELSE 0) + res.patchOps
                       + (IF fixedLazy # NullUrl THEN 1 ELSE 0)]

P_Media == <<"media", "a.jpg">>
P_MediaBare == <<"media">>
P_Other == <<"img", "media", "a.jpg">>

\* the URLs a page gives its images
UrlPool ==
    {NullUrl, [NullUrl EXCEPT !.kind = "empty"], [NullUrl EXCEPT !.kind = "data"],
     [NullUrl EXCEPT !.kind = "rel", !.path = P_Media]}
      \cup {AbsUrl("https:", h, P_Media, q) :
              h \in {H_Site, H_S05, H_S05Upper, H_S10Upper, H_S11, H_S1, H_Xs05}, q \in BOOLEAN}
      \cup {AbsUrl("http:", H_S05, P_Media, FALSE), AbsUrl("https:", H_S05, P_MediaBare, FALSE),
            AbsUrl("https:", H_S05, P_Other, FALSE)}

Locations == {[protocol |-> "https:", host |-> H_Site], [protocol |-> "https:", host |-> H_S05]}

InitImg ==
    /\ exportState = ClearedState
    /\ dataStore = NoPayload
    /\ partialStore = NoPartial
    /\ cancelFlag = FALSE
    /\ now = 0
    /\ rn = [r \in Runners |-> FreshLocals]
    /\ mig = NoPanel
    /\ md = NoMatcher
    /\ \E loc \in Locations, src \in UrlPool,
          lazy \in {NullUrl, AbsUrl("https:", H_S05, P_Media, TRUE)},
          srcset \in {<<>>, <<AbsUrl("https:", H_S05, P_Media, FALSE),
                              AbsUrl("https:", H_S11, P_Media, FALSE)>>} :
         call = [fn |-> "patch", loc |-> loc,
                 img |-> [src |-> src, srcset |-> srcset, lazy |-> lazy],
                 observing |-> FALSE, pending |-> <<>>, pageWrites |-> 0,
                 last |-> [kind |-> "none", ownOnly |-> FALSE, patchOps |-> 0]]

ImgOthers == UNCHANGED <<exportState, dataStore, partialStore, cancelFlag, now, rn, mig, md>>

\* run(opts) on an allowed host: stop() disconnects the observer and drops
\* its undelivered records, start() scans and then creates the observer
RunPatcher ==
    /\ call.fn = "patch"
    /\ LET r == patchImage(call.img, call.loc)
       IN call' = [call EXCEPT !.img = r.img, !.observing = TRUE, !.pending = <<>>,
                               !.last = [kind |-> "scan", ownOnly |-> FALSE,
                                         patchOps |-> r.patchOps]]
    /\ ImgOthers

\* a script of the page sets src or a lazy attribute of the image
PageWrite ==
    /\ call.fn = "patch"
    /\ call.pageWrites < MaxPageWrites
    /\ \E attr \in {"src", "data-src"}, u \in UrlPool \ {NullUrl} :
         call' = [call EXCEPT !.img = IF attr = "src" THEN [@ EXCEPT !.src = u]
                                      ELSE [@ EXCEPT !.lazy = u],
                              !.pageWrites = @ + 1,
                              !.pending = IF call.observing THEN Append(@, "page") ELSE @,
                              !.last = [kind |-> "page", ownOnly |-> FALSE, patchOps |-> 0]]
    /\ ImgOthers

\* the MutationObserver callback: patchImage once for every record
\* delivered; its attribute writes are the next records
ObserverCallback ==
    /\ call.fn = "patch"
    /\ call.observing
    /\ call.pending # <<>>
    /\ LET RECURSIVE Passes(_, _, _)
           Passes(n, img, written) ==
               IF n = 0 THEN [img |-> img, written |-> written]
               ELSE LET r == patchImage(img, call.loc)
                    IN Passes(n - 1, r.img, written \o r.written)
           r == Passes(Len(call.pending), call.img, <<>>)
       IN call' = [call EXCEPT
                     !.img = r.img,
                     !.pending = [k \in 1..Len(r.written) |-> "patch"],
                     !.last = [kind |-> "callback",
                               ownOnly |-> \A k \in 1..Len(call.pending) :
                                              call.pending[k] = "patch",
                               patchOps |-> Len(r.written)]]
    /\ ImgOthers

NextImg == RunPatcher \/ PageWrite \/ ObserverCallback

SpecImg == InitImg /\ [][NextImg]_vars

\* C40: right after a pass of the patcher (the initial scan or an observer
\* callback) patchImage of the image writes no attribute, and so does
\* getFixedUrl of every URL it holds yield no rewrite; an observer callback
\* that was caused by the patcher's own writes alone writes nothing and
\* leaves no record to deliver.
C40_FixedPoint ==
    (call.fn = "patch" /\ call.last.kind \in {"scan", "callback"}) =>
        /\ patchImage(call.img, call.loc).patchOps = 0
        /\ patchImage(call.img, call.loc).img = call.img
        /\ getFixedUrl(call.img.src, call.loc) = NullUrl
        /\ getFixedUrl(call.img.lazy, call.loc) = NullUrl
        /\ \A k \in 1..Len(call.img.srcset) : getFixedUrl(call.img.srcset[k], call.loc) = NullUrl
        /\ (call.last.kind = "callback" /\ call.last.ownOnly) =>
              call.last.patchOps = 0 /\ call.pending = <<>>

\* on a page served from s05.x the page set an image URL with a query; the
\* callback rewrote it, and the callback for that write has written nothing
C40_Witness ==
    /\ call.fn = "patch"
    /\ call.loc.host = H_S05
    /\ call.last.kind = "callback" /\ call.last.ownOnly
    /\ call.img.src = AbsUrl("https:", H_S05, P_Media, FALSE)
    /\ call.pageWrites > 0


====
